---- MODULE Spec2Model ----
(***************************************************************************)
(* The in-memory conversation session store of the WhatsApp sales bot:     *)
(* app/user_context/service.py, class UserContextService.                  *)
(*                                                                         *)
(* user_sessions[phone] is a Python dict, so it keeps insertion order: it  *)
(* is modelled as a sequence of session records, each carrying its key.    *)
(* conversation_history[phone] is a dict whose order is never observed: it *)
(* is a function from keys to message lists.  datetime.now() is the model  *)
(* clock `now`, in minutes; one store call reads one clock value.          *)
(***************************************************************************)
EXTENDS Integers, Sequences, FiniteSets, TLC

VARIABLES
    user_sessions,          \* phone -> sequence of sessions (dict order)
    conversation_history,   \* phone -> (key -> sequence of messages)
    now,                    \* the clock, minutes
    last,                   \* the call that produced this state and its result
    threads                 \* the calls in progress when calls run in parallel

vars == <<user_sessions, conversation_history, now, last, threads>>

----------------------------------------------------------------------------
(* Program constants *)

max_history_length == 20
session_timeout_minutes == 30
DateTimeMin == -1           \* datetime.min: earlier than every clock value

GREETING == "greeting"
BROWSING == "browsing"
PRODUCT_DETAILS == "product_details"
CATEGORY_BROWSING == "category_browsing"
CART_REVIEW == "cart_review"
CHECKOUT == "checkout"
PAYMENT == "payment"
ORDER_CONFIRMATION == "order_confirmation"
SUPPORT == "support"
BUSINESS_SELECTION == "business_selection"

ConversationState ==
    {GREETING, BROWSING, PRODUCT_DETAILS, CATEGORY_BROWSING, CART_REVIEW,
     CHECKOUT, PAYMENT, ORDER_CONFIRMATION, SUPPORT, BUSINESS_SELECTION}

TEMP == "_temp"             \* key of the placeholder session
CURRENCY == "ZMW"

----------------------------------------------------------------------------
(* Bounds of the model *)

MaxTime == 60               \* the clock stops here
TickMinutes == 15           \* one clock step
MaxQuantity == 3            \* |quantity| of a cart item stays within this
MaxMessages == 2            \* history length reached by the small specifications
MaxAppends == 25            \* appends made by the history specification
MaxCalls == 2               \* calls one thread makes when calls run in parallel

Phones == {"p1", "p2"}
Businesses == {"B1", "B2"}
Keys == Businesses \cup {TEMP}

----------------------------------------------------------------------------
(* Python values *)

\* A business_id argument as the caller passes it: None, a str or an int.
NoneId == [kind |-> "none", text |-> ""]
StrId(s) == [kind |-> "str", text |-> s]
IntId(s) == [kind |-> "int", text |-> s]     \* the int whose decimal form is s

\* Python truthiness of a business_id: None, "" and 0 are falsy.
Truthy(b) == b # NoneId /\ b # StrId("") /\ b # IntId("0")

\* str(business_id)
Str(b) == b.text

NoKey == "None"             \* get_active_business_id returning None

\* what a call gets back when it reads the active business id
AsId(k) == IF k = NoKey THEN NoneId ELSE StrId(k)

NoValue == "null"           \* Python None stored in a data field

----------------------------------------------------------------------------
(* Dict helpers: a phone's sessions, in insertion order *)

KeysOf(ss) == {ss[i].key : i \in 1..Len(ss)}

HasKey(ss, k) == k \in KeysOf(ss)

IndexOf(ss, k) == CHOOSE i \in 1..Len(ss) : ss[i].key = k

Get(ss, k) == ss[IndexOf(ss, k)]

\* d[k] = v: in place when k is present, appended otherwise
Put(ss, k, v) ==
    IF HasKey(ss, k) THEN [ss EXCEPT ![IndexOf(ss, k)] = v] ELSE Append(ss, v)

\* d.pop(k, None) / del d[k]
Del(ss, k) == SelectSeq(ss, LAMBDA s : s.key # k)

\* function update that may extend the domain
Assign(f, k, v) == [x \in DOMAIN f \cup {k} |-> IF x = k THEN v ELSE f[x]]

\* function with one key dropped
Drop(f, k) == [x \in DOMAIN f \ {k} |-> f[x]]

----------------------------------------------------------------------------
(* Session entities *)

EmptyHistories == [k \in {} |-> <<>>]

\* the placeholder session of lines 58-65 and 118-125
NewTempSession(t) ==
    [key |-> TEMP,
     state |-> BUSINESS_SELECTION,
     last_activity |-> t,
     data |-> [selected_business |-> NoValue, user_info |-> <<>>]]

\* a business session that starts where a browsing customer would be
NewBusinessSessionBrowsing(b, t) ==
    [key |-> Str(b),
     state |-> BROWSING,
     last_activity |-> t,
     data |-> [cart |-> <<>>,
               viewed_products |-> <<>>,
               selected_product |-> NoValue,
               selected_category |-> NoValue,
               business_id |-> b,
               user_info |-> <<>>,
               payment_info |-> <<>>,
               preferences |-> <<>>]]

\* the business session of lines 80-93; data.business_id keeps the argument
\* as passed, the dict key is its str()
NewBusinessSession(b, t) ==
    [key |-> Str(b),
     state |-> GREETING,
     last_activity |-> t,
     data |-> [cart |-> <<>>,
               viewed_products |-> <<>>,
               selected_product |-> NoValue,
               selected_category |-> NoValue,
               business_id |-> b,
               user_info |-> <<>>,
               payment_info |-> <<>>,
               preferences |-> <<>>]]

\* session["data"].get("cart", [])
CartOf(s) == IF "cart" \in DOMAIN s.data THEN s.data.cart ELSE <<>>

----------------------------------------------------------------------------
(* _clean_expired_sessions *)

\* a sweep that lets a session idle for twice the timeout
ExpiredLate(s, t) == t - s.last_activity > 2 * session_timeout_minutes

\* a sweep that also takes a session idle for exactly the timeout
ExpiredAtTimeout(s, t) == t - s.last_activity >= session_timeout_minutes

\* time_diff > timedelta(minutes=self.session_timeout_minutes)
Expired(s, t) == t - s.last_activity > session_timeout_minutes

Kept(ss, t) == SelectSeq(ss, LAMBDA s : ~Expired(s, t))

ExpiredKeys(ss, t) == {ss[i].key : i \in {j \in 1..Len(ss) : Expired(ss[j], t)}}

\* a sweep that pops the sessions and leaves the emptied phone entries
clean_expired_sessions_only(us, ch, t) ==
    [us |-> [p \in DOMAIN us |-> Kept(us[p], t)],
     ch |-> [p \in DOMAIN ch |->
                IF p \in DOMAIN us
                THEN [k \in DOMAIN ch[p] \ ExpiredKeys(us[p], t) |-> ch[p][k]]
                ELSE ch[p]]]

\* The sweep over every phone: expired sessions and their histories go, and
\* a phone left without sessions loses its entry in both maps.
clean_expired_sessions(us, ch, t) ==
    LET gone == {p \in DOMAIN us : Kept(us[p], t) = <<>>}
    IN  [us |-> [p \in DOMAIN us \ gone |-> Kept(us[p], t)],
         ch |-> [p \in DOMAIN ch \ gone |->
                    IF p \in DOMAIN us
                    THEN [k \in DOMAIN ch[p] \ ExpiredKeys(us[p], t) |-> ch[p][k]]
                    ELSE ch[p]]]

----------------------------------------------------------------------------
(* get_active_business_id *)

\* a loop that dropped the comparison: the last business key iterated wins
RECURSIVE MostRecentUncompared(_, _, _, _)
MostRecentUncompared(ss, i, most_recent, latest_time) ==
    IF i > Len(ss) THEN most_recent
    ELSE IF ss[i].key # TEMP
         THEN MostRecentUncompared(ss, i + 1, ss[i].key, ss[i].last_activity)
         ELSE MostRecentUncompared(ss, i + 1, most_recent, latest_time)

\* a loop that stops at the first business key of the dict
RECURSIVE MostRecentFirst(_, _, _, _)
MostRecentFirst(ss, i, most_recent, latest_time) ==
    IF i > Len(ss) THEN most_recent
    ELSE IF ss[i].key # TEMP THEN ss[i].key
    ELSE MostRecentFirst(ss, i + 1, most_recent, latest_time)

\* the loop of lines 174-185 over the dict in insertion order, skipping the
\* placeholder; a later session replaces the candidate only when strictly newer
RECURSIVE MostRecent(_, _, _, _)
MostRecent(ss, i, most_recent, latest_time) ==
    IF i > Len(ss) THEN most_recent
    ELSE IF ss[i].key # TEMP /\ ss[i].last_activity > latest_time
         THEN MostRecent(ss, i + 1, ss[i].key, ss[i].last_activity)
         ELSE MostRecent(ss, i + 1, most_recent, latest_time)

get_active_business_id(us, p) ==
    IF p \notin DOMAIN us THEN NoKey
    ELSE IF KeysOf(us[p]) \ {TEMP} = {} THEN NoKey
    ELSE MostRecent(us[p], 1, NoKey, DateTimeMin)

\* "if not business_id: business_id = self.get_active_business_id(phone)",
\* the first lines of every keyed call; it reads the store before any sweep
ActiveOr(us, p, b) ==
    IF Truthy(b) THEN b ELSE AsId(get_active_business_id(us, p))

----------------------------------------------------------------------------
(* _get_or_create_session: the store after the call and the key returned *)

\* lines 58-68 and 118-128: a new placeholder, put over any existing one
WithTemp(us, ch, p, t) ==
    [us |-> [us EXCEPT ![p] = Put(@, TEMP, NewTempSession(t))],
     ch |-> [ch EXCEPT ![p] = Assign(@, TEMP, <<>>)],
     key |-> TEMP]

\* a business branch that leaves the placeholder and its history in place
WithBusinessKeepTemp(us, ch, p, b, t) ==
    LET k == Str(b)
        absent == ~HasKey(us[p], k)
        ss1 == IF absent THEN Append(us[p], NewBusinessSession(b, t)) ELSE us[p]
        h1 == IF absent /\ k \notin DOMAIN ch[p]
              THEN Assign(ch[p], k, <<>>) ELSE ch[p]
        ss2 == [ss1 EXCEPT ![IndexOf(ss1, k)].last_activity = t]
    IN  [us |-> [us EXCEPT ![p] = ss2],
         ch |-> [ch EXCEPT ![p] = h1],
         key |-> k]

\* a business branch that makes the chosen business the phone's only session
WithBusinessAlone(us, ch, p, b, t) ==
    LET k == Str(b)
        absent == ~HasKey(us[p], k)
        ss1 == IF absent THEN Append(us[p], NewBusinessSession(b, t)) ELSE us[p]
        h1 == IF absent /\ k \notin DOMAIN ch[p]
              THEN Assign(ch[p], k, <<>>) ELSE ch[p]
        ss2 == [ss1 EXCEPT ![IndexOf(ss1, k)].last_activity = t]
    IN  [us |-> [us EXCEPT ![p] = SelectSeq(ss2, LAMBDA s : s.key = k)],
         ch |-> [ch EXCEPT ![p] = [x \in DOMAIN h1 \cap {k} |-> h1[x]]],
         key |-> k]

\* a business branch that deletes the placeholder and forgets its history
WithBusinessKeepTempHistory(us, ch, p, b, t) ==
    LET k == Str(b)
        absent == ~HasKey(us[p], k)
        ss1 == IF absent THEN Append(us[p], NewBusinessSession(b, t)) ELSE us[p]
        h1 == IF absent /\ k \notin DOMAIN ch[p]
              THEN Assign(ch[p], k, <<>>) ELSE ch[p]
        ss2 == [ss1 EXCEPT ![IndexOf(ss1, k)].last_activity = t]
    IN  [us |-> [us EXCEPT ![p] = Del(ss2, TEMP)],
         ch |-> [ch EXCEPT ![p] = h1],
         key |-> k]

\* lines 75-107: the session of str(b), created when absent, touched, and the
\* placeholder removed
WithBusiness(us, ch, p, b, t) ==
    LET k == Str(b)
        absent == ~HasKey(us[p], k)
        ss1 == IF absent THEN Append(us[p], NewBusinessSession(b, t)) ELSE us[p]
        h1 == IF absent /\ k \notin DOMAIN ch[p]
              THEN Assign(ch[p], k, <<>>) ELSE ch[p]
        ss2 == [ss1 EXCEPT ![IndexOf(ss1, k)].last_activity = t]
        hasTemp == HasKey(ss2, TEMP)
        ss3 == IF hasTemp THEN Del(ss2, TEMP) ELSE ss2
        h2 == IF hasTemp /\ TEMP \in DOMAIN h1 THEN Drop(h1, TEMP) ELSE h1
    IN  [us |-> [us EXCEPT ![p] = ss3],
         ch |-> [ch EXCEPT ![p] = h2],
         key |-> k]

\* lines 110-115: the first business session in dict order, touched
WithFirst(us, ch, p, t) ==
    LET business_keys == SelectSeq(us[p], LAMBDA s : s.key # TEMP)
        k == business_keys[1].key
    IN  [us |-> [us EXCEPT ![p][IndexOf(us[p], k)].last_activity = t],
         ch |-> ch,
         key |-> k]

\* a call for which "no business id" always means the placeholder
session_for_placeholder(us, ch, p, business_id, t) ==
    LET fresh == p \notin DOMAIN us
        us1 == IF fresh THEN Assign(us, p, <<>>) ELSE us
        ch1 == IF fresh THEN Assign(ch, p, EmptyHistories) ELSE ch
    IN  IF Truthy(business_id) THEN WithBusiness(us1, ch1, p, business_id, t)
        ELSE WithTemp(us1, ch1, p, t)

\* lines 50-128: the call after its sweep
session_for(us, ch, p, business_id, t) ==
    LET fresh == p \notin DOMAIN us
        us1 == IF fresh THEN Assign(us, p, <<>>) ELSE us
        ch1 == IF fresh THEN Assign(ch, p, EmptyHistories) ELSE ch
        active == get_active_business_id(us1, p)
        b == IF ~Truthy(business_id) /\ active # NoKey
             THEN AsId(active) ELSE business_id
    IN  IF ~Truthy(business_id) /\ us1[p] = <<>> THEN WithTemp(us1, ch1, p, t)
        ELSE IF Truthy(b) THEN WithBusiness(us1, ch1, p, b, t)
        ELSE IF KeysOf(us1[p]) \ {TEMP} # {} THEN WithFirst(us1, ch1, p, t)
        ELSE WithTemp(us1, ch1, p, t)

get_or_create_session(us, ch, p, business_id, t) ==
    LET c == clean_expired_sessions(us, ch, t)
    IN  session_for(c.us, c.ch, p, business_id, t)

----------------------------------------------------------------------------
(* Cart and history, as the methods compute them on the session they hold *)

\* next((item for item in cart if item["product"].get("id") == product_id), None)
RECURSIVE FindItem(_, _, _)
FindItem(cart, product_id, i) ==
    IF i > Len(cart) THEN 0
    ELSE IF cart[i].product.id = product_id THEN i
    ELSE FindItem(cart, product_id, i + 1)

\* a merge that also stores the product passed by the later add
AddItemResnapshot(cart, product, quantity) ==
    LET i == FindItem(cart, product.id, 1)
    IN  IF i # 0
        THEN [cart EXCEPT ![i] = [product |-> product,
                                  quantity |-> @.quantity + quantity]]
        ELSE Append(cart, [product |-> product, quantity |-> quantity])

\* lines 343-355: merge into the first item of that id, or append
AddItem(cart, product, quantity) ==
    LET i == FindItem(cart, product.id, 1)
    IN  IF i # 0
        THEN [cart EXCEPT ![i].quantity = @ + quantity]
        ELSE Append(cart, [product |-> product, quantity |-> quantity])

\* a removal that drops everything up to and including the match
RemoveItemPrefix(cart, product_id) ==
    LET i == FindItem(cart, product_id, 1)
    IN  IF i = 0 THEN cart ELSE SubSeq(cart, i + 1, Len(cart))

\* line 384
RemoveItem(cart, product_id) ==
    SelectSeq(cart, LAMBDA item : item.product.id # product_id)

\* a total that counts every item once, whatever its quantity
RECURSIVE SumCartUnit(_, _, _, _)
SumCartUnit(cart, i, total, item_count) ==
    IF i > Len(cart)
    THEN [total |-> total, item_count |-> item_count, currency |-> CURRENCY]
    ELSE SumCartUnit(cart, i + 1,
                     total + cart[i].product.price,
                     item_count + cart[i].quantity)

\* lines 441-454
RECURSIVE SumCart(_, _, _, _)
SumCart(cart, i, total, item_count) ==
    IF i > Len(cart)
    THEN [total |-> total, item_count |-> item_count, currency |-> CURRENCY]
    ELSE SumCart(cart, i + 1,
                 total + cart[i].product.price * cart[i].quantity,
                 item_count + cart[i].quantity)

CartTotal(cart) == SumCart(cart, 1, 0, 0)

\* a slice from the wrong end: the first max_history_length entries are kept
AppendMessageKeepOldest(h, msg) ==
    LET h1 == Append(h, msg)
    IN  IF Len(h1) > max_history_length
        THEN SubSeq(h1, 1, max_history_length)
        ELSE h1

\* an append without the limit
AppendMessageUnlimited(h, msg) == Append(h, msg)

\* lines 308-316: append, then keep the last max_history_length entries
AppendMessage(h, msg) ==
    LET h1 == Append(h, msg)
    IN  IF Len(h1) > max_history_length
        THEN SubSeq(h1, Len(h1) - max_history_length + 1, Len(h1))
        ELSE h1

\* 'business_id_str = "_temp" if business_id is None else str(business_id)'
HistoryKey(b) == IF b = NoneId THEN TEMP ELSE Str(b)

\* the session a call holds after _get_or_create_session returned r
Held(r, p) == Get(r.us[p], r.key)

\* the store of r with the held session replaced by s (the call mutates the
\* dict it was handed, which is the one in the map)
Store(r, p, s) == [r.us EXCEPT ![p] = Put(@, r.key, s)]

\* what one sweep at time t removes (the sessions logged at line 146)
Swept(us, ch, t) ==
    UNION {{[phone |-> p,
             session |-> us[p][i],
             history |-> IF p \in DOMAIN ch /\ us[p][i].key \in DOMAIN ch[p]
                         THEN ch[p][us[p][i].key] ELSE <<>>]
            : i \in {j \in 1..Len(us[p]) : Expired(us[p][j], t)}}
           : p \in DOMAIN us}

\* the record of a call: its name and arguments, the key it resolved, what it
\* returned, what its sweep removed and the session _get_or_create_session
\* handed it, before the call changed it
Called(op, p, b, key, arg, ret, swept, held) ==
    [op |-> op, phone |-> p, bid |-> b, key |-> key, arg |-> arg, ret |-> ret,
     swept |-> swept, held |-> held]

NotCalled(op) == Called(op, NoValue, NoneId, NoKey, NoValue, NoValue, {}, NoValue)

SweptNow == Swept(user_sessions, conversation_history, now)

----------------------------------------------------------------------------
(* Calls in progress.  A thread inside a call holds references: the session *)
(* dict it was handed and the cart item it found.  A session that is popped *)
(* from the map while a thread holds it lives on as an object outside the   *)
(* map; `orphans` keeps those objects, and ref tells where a frame's        *)
(* session is: 0 for the one in the map, n > 0 for orphans[n].              *)

Threads == {"t1", "t2"}

\* a thread between calls, with the names of the calls it has completed
IdleFrame(done) ==
    [pc |-> "idle", op |-> NoValue, done |-> done, judged |-> {},
     absent |-> FALSE, ref |-> 0, held |-> NoValue, item |-> 0, read |-> 0]

NoThreads == [frames |-> [t \in Threads |-> IdleFrame(<<>>)], orphans |-> <<>>]

----------------------------------------------------------------------------
(* Initial state: __init__, lines 23-34 *)

Init ==
    /\ user_sessions = [p \in {} |-> <<>>]
    /\ conversation_history = [p \in {} |-> EmptyHistories]
    /\ now = 0
    /\ last = NotCalled("init")
    /\ threads = NoThreads

----------------------------------------------------------------------------
(* The clock *)

Tick(minutes) ==
    /\ now + minutes <= MaxTime
    /\ now' = now + minutes
    /\ last' = NotCalled("tick")
    /\ UNCHANGED <<user_sessions, conversation_history, threads>>

----------------------------------------------------------------------------
(* The calls of the store; every one runs at the clock value `now` *)

\* Every keyed call below binds, once, the business id it resolves (b), the
\* result of _get_or_create_session (r) and the session it then holds (h).

\* get_session, lines 201-212
get_session(p, business_id) ==
    \E r \in {get_or_create_session(user_sessions, conversation_history,
                                    p, business_id, now)} :
    \E h \in {Held(r, p)} :
        /\ user_sessions' = r.us
        /\ conversation_history' = r.ch
        /\ last' = Called("get_session", p, business_id, r.key, NoValue, h,
                          SweptNow, h)
        /\ UNCHANGED <<now, threads>>

\* set_active_business, lines 187-199
set_active_business(p, business_id) ==
    \E r \in {get_or_create_session(user_sessions, conversation_history,
                                    p, business_id, now)} :
    \E h \in {Held(r, p)} :
        /\ user_sessions' = r.us
        /\ conversation_history' = r.ch
        /\ last' = Called("set_active_business", p, business_id, r.key, NoValue, h,
                          SweptNow, h)
        /\ UNCHANGED <<now, threads>>

\* a lookup that counts as activity: it touches the session it answers with
GetActiveBusinessTouching(p) ==
    \E k \in {get_active_business_id(user_sessions, p)} :
        /\ user_sessions' =
              IF k = NoKey THEN user_sessions
              ELSE [user_sessions EXCEPT ![p][IndexOf(user_sessions[p], k)].last_activity = now]
        /\ last' = Called("get_active_business_id", p, NoneId, NoKey, NoValue, k,
                          {}, NoValue)
        /\ UNCHANGED <<conversation_history, now, threads>>

\* get_active_business_id called on its own (handler.py line 48, line 129)
GetActiveBusiness(p) ==
    /\ last' = Called("get_active_business_id", p, NoneId, NoKey, NoValue,
                      get_active_business_id(user_sessions, p), {}, NoValue)
    /\ UNCHANGED <<user_sessions, conversation_history, now, threads>>

\* a listing that forgets to leave the placeholder out
all_keys(us, p) ==
    IF p \notin DOMAIN us THEN <<>>
    ELSE [i \in 1..Len(us[p]) |-> us[p][i].key]

\* lines 484-491: the non-placeholder keys of a phone in dict order
business_keys(us, p) ==
    IF p \notin DOMAIN us THEN <<>>
    ELSE [i \in 1..Len(Del(us[p], TEMP)) |-> Del(us[p], TEMP)[i].key]

\* get_all_user_businesses, lines 474-491
get_all_user_businesses(p) ==
    /\ last' = Called("get_all_user_businesses", p, NoneId, NoKey, NoValue,
                      business_keys(user_sessions, p), {}, NoValue)
    /\ UNCHANGED <<user_sessions, conversation_history, now, threads>>

\* a state machine with a rule: a session in PAYMENT cannot be reset
update_session_state_guarded(p, new_state, business_id) ==
    \E b \in {ActiveOr(user_sessions, p, business_id)} :
    \E r \in {get_or_create_session(user_sessions, conversation_history, p, b, now)} :
    \E h \in {Held(r, p)} :
    \E s \in {IF h.state = PAYMENT /\ new_state = GREETING THEN h
              ELSE [h EXCEPT !.state = new_state]} :
        /\ user_sessions' = Store(r, p, s)
        /\ conversation_history' = r.ch
        /\ last' = Called("update_session_state", p, business_id, r.key, new_state, s,
                          SweptNow, h)
        /\ UNCHANGED <<now, threads>>

\* update_session_state, lines 214-232
update_session_state(p, new_state, business_id) ==
    \E b \in {ActiveOr(user_sessions, p, business_id)} :
    \E r \in {get_or_create_session(user_sessions, conversation_history, p, b, now)} :
    \E h \in {Held(r, p)} :
    \E s \in {[h EXCEPT !.state = new_state]} :
        /\ user_sessions' = Store(r, p, s)
        /\ conversation_history' = r.ch
        /\ last' = Called("update_session_state", p, business_id, r.key, new_state, s,
                          SweptNow, h)
        /\ UNCHANGED <<now, threads>>

\* update_session_data, lines 234-253
update_session_data(p, data_key, value, business_id) ==
    \E b \in {ActiveOr(user_sessions, p, business_id)} :
    \E r \in {get_or_create_session(user_sessions, conversation_history, p, b, now)} :
    \E h \in {Held(r, p)} :
    \E s \in {[h EXCEPT !.data = Assign(@, data_key, value)]} :
        /\ user_sessions' = Store(r, p, s)
        /\ conversation_history' = r.ch
        /\ last' = Called("update_session_data", p, business_id, r.key,
                          <<data_key, value>>, s, SweptNow, h)
        /\ UNCHANGED <<now, threads>>

\* get_session_data, lines 456-472
get_session_data(p, business_id) ==
    \E b \in {ActiveOr(user_sessions, p, business_id)} :
    \E r \in {get_or_create_session(user_sessions, conversation_history, p, b, now)} :
    \E h \in {Held(r, p)} :
        /\ user_sessions' = r.us
        /\ conversation_history' = r.ch
        /\ last' = Called("get_session_data", p, business_id, r.key, NoValue,
                          h.data, SweptNow, h)
        /\ UNCHANGED <<now, threads>>

\* get_conversation_history, lines 255-278
get_conversation_history(p, business_id) ==
    \E b \in {ActiveOr(user_sessions, p, business_id)} :
    \E r \in {get_or_create_session(user_sessions, conversation_history, p, b, now)} :
    \E h \in {Held(r, p)} :
    \E k \in {HistoryKey(b)} :
        /\ user_sessions' = r.us
        /\ conversation_history' = r.ch
        /\ last' = Called("get_conversation_history", p, business_id, r.key, NoValue,
                          IF p \in DOMAIN r.ch /\ k \in DOMAIN r.ch[p]
                          THEN r.ch[p][k] ELSE <<>>,
                          SweptNow, h)
        /\ UNCHANGED <<now, threads>>

\* add_message_to_history, lines 280-316
add_message_to_history(p, role, content, business_id) ==
    \E b \in {ActiveOr(user_sessions, p, business_id)} :
    \E r \in {get_or_create_session(user_sessions, conversation_history, p, b, now)} :
    \E k \in {HistoryKey(b)} :
    \E ch1 \in {IF p \notin DOMAIN r.ch
                THEN Assign(r.ch, p, EmptyHistories) ELSE r.ch} :
    \E h \in {IF k \notin DOMAIN ch1[p] THEN <<>> ELSE ch1[p][k]} :
    \* the timestamp is the clock value where the code stores its ISO text
    \E msg \in {[role |-> role, content |-> content, timestamp |-> now]} :
        /\ user_sessions' = r.us
        /\ conversation_history' =
              [ch1 EXCEPT ![p] = Assign(@, k, AppendMessage(h, msg))]
        /\ last' = Called("add_message_to_history", p, business_id, r.key, msg,
                          NoValue, SweptNow, Held(r, p))
        /\ UNCHANGED <<now, threads>>

\* add_to_cart, lines 318-360
add_to_cart(p, product, quantity, business_id) ==
    \E b1 \in {ActiveOr(user_sessions, p, business_id)} :
    \E b \in {IF ~Truthy(b1) /\ Truthy(product.business_id)
              THEN product.business_id ELSE b1} :
    \E r \in {get_or_create_session(user_sessions, conversation_history, p, b, now)} :
    \E h \in {Held(r, p)} :
    \E cart \in {AddItem(CartOf(h), product, quantity)} :
    \E s \in {[h EXCEPT !.data = Assign(@, "cart", cart)]} :
        /\ user_sessions' = Store(r, p, s)
        /\ conversation_history' = r.ch
        /\ last' = Called("add_to_cart", p, business_id, r.key,
                          <<product, quantity>>, cart, SweptNow, h)
        /\ UNCHANGED <<now, threads>>

\* remove_from_cart, lines 362-389
remove_from_cart(p, product_id, business_id) ==
    \E b \in {ActiveOr(user_sessions, p, business_id)} :
    \E r \in {get_or_create_session(user_sessions, conversation_history, p, b, now)} :
    \E h \in {Held(r, p)} :
    \E updated_cart \in {RemoveItem(CartOf(h), product_id)} :
    \E s \in {[h EXCEPT !.data = Assign(@, "cart", updated_cart)]} :
        /\ user_sessions' = Store(r, p, s)
        /\ conversation_history' = r.ch
        /\ last' = Called("remove_from_cart", p, business_id, r.key, product_id,
                          updated_cart, SweptNow, h)
        /\ UNCHANGED <<now, threads>>

\* a clear_cart that reports a key without a session instead of creating one
clear_cart_strict(p, business_id) ==
    \E b \in {ActiveOr(user_sessions, p, business_id)} :
    \E c \in {clean_expired_sessions(user_sessions, conversation_history, now)} :
    \E r \in {get_or_create_session(user_sessions, conversation_history, p, b, now)} :
        IF p \notin DOMAIN c.us \/ ~HasKey(c.us[p], HistoryKey(b))
        THEN /\ user_sessions' = c.us
             /\ conversation_history' = c.ch
             /\ last' = Called("clear_cart", p, business_id, HistoryKey(b), NoValue,
                               "session not found", SweptNow, NoValue)
             /\ UNCHANGED <<now, threads>>
        ELSE \E h \in {Held(r, p)} :
             \E s \in {[h EXCEPT !.data = Assign(@, "cart", <<>>)]} :
                /\ user_sessions' = Store(r, p, s)
                /\ conversation_history' = r.ch
                /\ last' = Called("clear_cart", p, business_id, r.key, NoValue, s.data,
                                  SweptNow, h)
                /\ UNCHANGED <<now, threads>>

\* a clear that drops the session and its history instead of emptying the cart
clear_cart_session(p, business_id) ==
    \E b \in {ActiveOr(user_sessions, p, business_id)} :
    \E r \in {get_or_create_session(user_sessions, conversation_history, p, b, now)} :
    \E h \in {Held(r, p)} :
        /\ user_sessions' = [r.us EXCEPT ![p] = Del(@, r.key)]
        /\ conversation_history' =
              IF p \in DOMAIN r.ch /\ r.key \in DOMAIN r.ch[p]
              THEN [r.ch EXCEPT ![p] = Drop(@, r.key)] ELSE r.ch
        /\ last' = Called("clear_cart", p, business_id, r.key, NoValue, <<>>,
                          SweptNow, h)
        /\ UNCHANGED <<now, threads>>

\* clear_cart, lines 391-408
clear_cart(p, business_id) ==
    \E b \in {ActiveOr(user_sessions, p, business_id)} :
    \E r \in {get_or_create_session(user_sessions, conversation_history, p, b, now)} :
    \E h \in {Held(r, p)} :
    \E s \in {[h EXCEPT !.data = Assign(@, "cart", <<>>)]} :
        /\ user_sessions' = Store(r, p, s)
        /\ conversation_history' = r.ch
        /\ last' = Called("clear_cart", p, business_id, r.key, NoValue, s.data,
                          SweptNow, h)
        /\ UNCHANGED <<now, threads>>

\* get_cart, lines 410-426
get_cart(p, business_id) ==
    \E b \in {ActiveOr(user_sessions, p, business_id)} :
    \E r \in {get_or_create_session(user_sessions, conversation_history, p, b, now)} :
    \E h \in {Held(r, p)} :
        /\ user_sessions' = r.us
        /\ conversation_history' = r.ch
        /\ last' = Called("get_cart", p, business_id, r.key, NoValue,
                          CartOf(h), SweptNow, h)
        /\ UNCHANGED <<now, threads>>

\* calculate_cart_total, lines 428-454: get_cart, then the sums
calculate_cart_total(p, business_id) ==
    \E b \in {ActiveOr(user_sessions, p, business_id)} :
    \E r \in {get_or_create_session(user_sessions, conversation_history, p, b, now)} :
    \E h \in {Held(r, p)} :
        /\ user_sessions' = r.us
        /\ conversation_history' = r.ch
        /\ last' = Called("calculate_cart_total", p, business_id, r.key, NoValue,
                          CartTotal(CartOf(h)), SweptNow, h)
        /\ UNCHANGED <<now, threads>>

----------------------------------------------------------------------------
(* Specifications *)

BusinessIds == {StrId(b) : b \in Businesses}
AnyId == {NoneId} \cup BusinessIds

\* The session life cycle: two phones, two businesses, the clock.
Next ==
    \/ Tick(TickMinutes)
    \/ \E p \in Phones, b \in AnyId : get_session(p, b)
    \/ \E p \in Phones : GetActiveBusiness(p)

Spec == Init /\ [][Next]_vars

----------------------------------------------------------------------------
(* One phone, one business and the placeholder: every keyed call, small inputs *)

Caller == "p1"
OneId == {NoneId, StrId("B1")}

ProductA == [id |-> "P1", price |-> 50, business_id |-> NoneId]
ProductA2 == [id |-> "P1", price |-> 70, business_id |-> NoneId]    \* re-priced
ProductB == [id |-> "P2", price |-> 20, business_id |-> NoneId]

\* the session and the history of (p, k) in a store
Has(us, p, k) == p \in DOMAIN us /\ HasKey(us[p], k)

SessionOf(us, p, k) == Get(us[p], k)

HistoryOf(ch, p, k) ==
    IF p \in DOMAIN ch /\ k \in DOMAIN ch[p] THEN ch[p][k] ELSE <<>>

InStore(p, k) == Has(user_sessions, p, k)

SessionAt(p, k) == SessionOf(user_sessions, p, k)

HistoryAt(p, k) == HistoryOf(conversation_history, p, k)

\* the key a keyed call without a product resolves
KeyFor(p, b) == HistoryKey(ActiveOr(user_sessions, p, b))

\* the cart and the history of the session that a call for key k of phone p
\* is handed by _get_or_create_session at this clock value
Handed(p, k) ==
    get_or_create_session(user_sessions, conversation_history, p,
                          IF k = TEMP THEN NoneId ELSE StrId(k), now)

HandedCart(p, k) == CartOf(Held(Handed(p, k), p))

HandedHistory(p, k) ==
    IF k \in DOMAIN Handed(p, k).ch[p] THEN Handed(p, k).ch[p][k] ELSE <<>>

NextStore ==
    \/ Tick(TickMinutes)
    \/ \E b \in OneId : get_session(Caller, b)
    \/ \E b \in OneId : update_session_state(Caller, BROWSING, b)
    \/ \E b \in OneId : update_session_data(Caller, "selected_product", "P1", b)
    \/ \E b \in OneId : get_session_data(Caller, b)
    \/ \E b \in OneId :
          /\ HandedCart(Caller, KeyFor(Caller, b)) = <<>>
          /\ add_to_cart(Caller, ProductA, 1, b)
    \/ \E b \in OneId : remove_from_cart(Caller, "P1", b)
    \/ \E b \in OneId : clear_cart(Caller, b)
    \/ \E b \in OneId : get_cart(Caller, b)
    \/ \E b \in OneId : calculate_cart_total(Caller, b)
    \/ \E b \in OneId :
          /\ Len(HandedHistory(Caller, KeyFor(Caller, b))) < MaxMessages
          /\ add_message_to_history(Caller, "user", "hi", b)
    \/ \E b \in OneId : get_conversation_history(Caller, b)
    \/ get_all_user_businesses(Caller)

SpecStore == Init /\ [][NextStore]_vars

----------------------------------------------------------------------------
(* The cart: one phone, products that share an id, quantities of every sign; *)
(* the clock jumps past the timeout                                          *)

Quantities == {-1, 0, 1, 2}

\* every quantity of the cart stays within the bound
Bounded(cart) ==
    \A i \in 1..Len(cart) :
        cart[i].quantity <= MaxQuantity /\ cart[i].quantity >= -MaxQuantity

NextCart ==
    \/ Tick(session_timeout_minutes + TickMinutes)
    \/ \E b \in OneId : get_session(Caller, b)
    \/ \E b \in OneId, product \in {ProductA, ProductA2, ProductB}, q \in Quantities :
          /\ Bounded(AddItem(HandedCart(Caller, KeyFor(Caller, b)), product, q))
          /\ add_to_cart(Caller, product, q, b)
    \/ \E b \in OneId, id \in {"P1", "P2"} : remove_from_cart(Caller, id, b)
    \/ \E b \in OneId : clear_cart(Caller, b)
    \/ \E b \in OneId : calculate_cart_total(Caller, b)

SpecCart == Init /\ [][NextCart]_vars

----------------------------------------------------------------------------
(* The history: one phone whose caller numbers its messages per session; the *)
(* clock jumps past the timeout                                             *)

\* the number the caller gives its next message to key k: one more than the
\* last message of a session that is in the store and has not timed out
NextNumber(p, k) ==
    IF /\ InStore(p, k)
       /\ now - SessionAt(p, k).last_activity <= session_timeout_minutes
       /\ HistoryAt(p, k) # <<>>
    THEN HistoryAt(p, k)[Len(HistoryAt(p, k))].content + 1
    ELSE 1

RoleOf(n) == IF n % 2 = 1 THEN "user" ELSE "assistant"

NextHistory ==
    \/ Tick(session_timeout_minutes + TickMinutes)
    \/ \E b \in OneId : get_session(Caller, b)
    \/ \E b \in OneId :
          LET n == NextNumber(Caller, KeyFor(Caller, b))
          IN  /\ n <= MaxAppends
              /\ add_message_to_history(Caller, RoleOf(n), n, b)
    \/ \E b \in OneId : get_conversation_history(Caller, b)

SpecHistory == Init /\ [][NextHistory]_vars

----------------------------------------------------------------------------
(* Calls run in parallel: threads call add_to_cart and update_session_state *)
(* for one phone and one business on the shared store, which has no lock.   *)
(* A call is the sequence of its reads and writes of the shared dicts; the  *)
(* steps of different threads interleave freely.                            *)

Frame(t) == threads.frames[t]

\* the session dict a thread holds
Object(t) ==
    IF Frame(t).ref = 0 THEN SessionAt(Caller, "B1")
    ELSE threads.orphans[Frame(t).ref]

\* the map after a thread wrote s into the session dict it holds
WriteMap(t, s) ==
    IF Frame(t).ref = 0
    THEN [user_sessions EXCEPT ![Caller] = Put(@, "B1", s)]
    ELSE user_sessions

\* the objects outside the map after that write, dropped once no thread other
\* than the finishing one holds any of them
WriteOrphans(t, s) ==
    IF \A u \in Threads \ {t} : Frame(u).ref = 0 THEN <<>>
    ELSE IF Frame(t).ref = 0 THEN threads.orphans
    ELSE [threads.orphans EXCEPT ![Frame(t).ref] = s]

\* the end of a call: the thread is between calls again
Return(t, s, arg, ret) ==
    /\ user_sessions' = WriteMap(t, s)
    /\ threads' = [frames |-> [threads.frames EXCEPT
                                  ![t] = IdleFrame(Append(Frame(t).done, Frame(t).op))],
                   orphans |-> WriteOrphans(t, s)]
    /\ last' = Called(Frame(t).op, Caller, StrId("B1"), "B1", arg, ret, {},
                      Frame(t).held)
    /\ UNCHANGED <<conversation_history, now>>

\* lines 132-140: the sweep reads the clock and every session's last_activity
\* and judges which keys to pop
sweep_judge(t, op) ==
    /\ Frame(t).pc = "idle"
    /\ Len(Frame(t).done) < MaxCalls
    /\ threads' = [threads EXCEPT !.frames[t] =
                      [@ EXCEPT !.pc = "judged", !.op = op,
                                !.judged = UNION {{<<p, k>> : k \in ExpiredKeys(user_sessions[p], now)}
                                                  : p \in DOMAIN user_sessions}]]
    /\ last' = NotCalled("sweep_judge")
    /\ UNCHANGED <<user_sessions, conversation_history, now>>

\* lines 142-152: the pops, by key, of what was judged, and of the phones left
\* empty; the session a thread holds leaves the map but stays with the thread
sweep_pop(t) ==
    /\ Frame(t).pc = "judged"
    /\ LET J == Frame(t).judged
           us1 == [p \in DOMAIN user_sessions |->
                      SelectSeq(user_sessions[p], LAMBDA x : <<p, x.key>> \notin J)]
           gone == {p \in DOMAIN us1 : us1[p] = <<>>}
           holders == {u \in Threads : /\ Frame(u).pc \in {"acquired", "found", "read"}
                                       /\ Frame(u).ref = 0}
           orphaned == /\ <<Caller, "B1">> \in J
                       /\ InStore(Caller, "B1")
                       /\ holders # {}
       IN  /\ user_sessions' = [p \in DOMAIN us1 \ gone |-> us1[p]]
           /\ conversation_history' =
                 [p \in DOMAIN conversation_history \ gone |->
                     [k \in {x \in DOMAIN conversation_history[p] : <<p, x>> \notin J}
                         |-> conversation_history[p][k]]]
           /\ threads' =
                 [frames |-> [u \in Threads |->
                                 IF u = t THEN [Frame(u) EXCEPT !.pc = "swept", !.judged = {}]
                                 ELSE IF orphaned /\ u \in holders
                                 THEN [Frame(u) EXCEPT !.ref = Len(threads.orphans) + 1]
                                 ELSE Frame(u)],
                  orphans |-> IF orphaned
                              THEN Append(threads.orphans, SessionAt(Caller, "B1"))
                              ELSE threads.orphans]
    /\ last' = NotCalled("sweep_pop")
    /\ UNCHANGED now

\* lines 50-107: the session of the key, created when absent, touched, handed out
acquire(t) ==
    /\ Frame(t).pc = "swept"
    /\ \E r \in {session_for(user_sessions, conversation_history,
                             Caller, StrId("B1"), now)} :
          /\ user_sessions' = r.us
          /\ conversation_history' = r.ch
          /\ threads' = [threads EXCEPT !.frames[t] =
                            [@ EXCEPT !.pc = "acquired", !.ref = 0,
                                      !.held = Held(r, Caller)]]
    /\ last' = NotCalled("acquire")
    /\ UNCHANGED now

\* update_session_state, line 231
set_state(t) ==
    /\ Frame(t).pc = "acquired"
    /\ Frame(t).op = "update_session_state"
    /\ \E s \in {[Object(t) EXCEPT !.state = BROWSING]} :
          Return(t, s, BROWSING, s)

\* add_to_cart, lines 341-345: the search for the item of the product id
find_item(t) ==
    /\ Frame(t).pc = "acquired"
    /\ Frame(t).op = "add_to_cart"
    /\ threads' = [threads EXCEPT !.frames[t] =
                      [@ EXCEPT !.pc = "found",
                                !.item = FindItem(CartOf(Object(t)), ProductA.id, 1)]]
    /\ last' = NotCalled("find_item")
    /\ UNCHANGED <<user_sessions, conversation_history, now>>

\* add_to_cart, lines 350-360: no item was found, one is appended
append_item(t) ==
    /\ Frame(t).pc = "found"
    /\ Frame(t).item = 0
    /\ \E cart \in {Append(CartOf(Object(t)), [product |-> ProductA, quantity |-> 1])} :
          Return(t, [Object(t) EXCEPT !.data = Assign(@, "cart", cart)],
                 <<ProductA, 1>>, cart)

\* add_to_cart, line 349, first half: the quantity of the item is read
read_quantity(t) ==
    /\ Frame(t).pc = "found"
    /\ Frame(t).item # 0
    /\ threads' = [threads EXCEPT !.frames[t] =
                      [@ EXCEPT !.pc = "read",
                                !.read = CartOf(Object(t))[Frame(t).item].quantity]]
    /\ last' = NotCalled("read_quantity")
    /\ UNCHANGED <<user_sessions, conversation_history, now>>

\* add_to_cart, lines 349-360, second half: the sum is stored in the item
write_quantity(t) ==
    /\ Frame(t).pc = "read"
    /\ \E cart \in {[CartOf(Object(t)) EXCEPT
                        ![Frame(t).item].quantity = Frame(t).read + 1]} :
          Return(t, [Object(t) EXCEPT !.data = Assign(@, "cart", cart)],
                 <<ProductA, 1>>, cart)

NextParallel ==
    \/ Tick(session_timeout_minutes + TickMinutes)
    \/ \E t \in Threads, op \in {"add_to_cart", "update_session_state"} :
          sweep_judge(t, op)
    \/ \E t \in Threads : sweep_pop(t)
    \/ \E t \in Threads : acquire(t)
    \/ \E t \in Threads : set_state(t)
    \/ \E t \in Threads : find_item(t)
    \/ \E t \in Threads : append_item(t)
    \/ \E t \in Threads : read_quantity(t)
    \/ \E t \in Threads : write_quantity(t)

SpecParallel == Init /\ [][NextParallel]_vars

----------------------------------------------------------------------------
(* The creation of a session with calls in parallel: lines 50-107 of        *)
(* _get_or_create_session as the test of line 79, the assignment of line 80 *)
(* and the touch and look-up of lines 99-107.                               *)

KeyError == "KeyError"

\* a call that ends with an exception raised by a dict look-up
Raise(t, error) ==
    /\ threads' = [threads EXCEPT !.frames[t] =
                      IdleFrame(Append(Frame(t).done, error))]
    /\ last' = Called(Frame(t).op, Caller, StrId("B1"), "B1", error, error, {},
                      NoValue)
    /\ UNCHANGED <<user_sessions, conversation_history, now>>

\* lines 51-53 and 79: the phone entries are created when absent and the key
\* is tested
check_key(t) ==
    /\ Frame(t).pc = "swept"
    /\ \E fresh \in {Caller \notin DOMAIN user_sessions} :
          /\ user_sessions' = IF fresh THEN Assign(user_sessions, Caller, <<>>)
                              ELSE user_sessions
          /\ conversation_history' =
                IF fresh THEN Assign(conversation_history, Caller, EmptyHistories)
                ELSE conversation_history
          /\ threads' = [threads EXCEPT !.frames[t] =
                            [@ EXCEPT !.pc = "checked",
                                      !.absent = fresh \/ ~HasKey(user_sessions[Caller], "B1")]]
    /\ last' = NotCalled("check_key")
    /\ UNCHANGED now

\* lines 80-96: a new session dict is assigned to the key, over whatever the
\* key holds by now, and the history is created when absent
create_session(t) ==
    /\ Frame(t).pc = "checked"
    /\ Frame(t).absent
    /\ IF Caller \notin DOMAIN user_sessions THEN Raise(t, KeyError)
       ELSE LET holders == {u \in Threads :
                               /\ Frame(u).pc \in {"acquired", "found", "read"}
                               /\ Frame(u).ref = 0}
                orphaned == InStore(Caller, "B1") /\ holders # {}
            IN  /\ user_sessions' =
                      [user_sessions EXCEPT
                          ![Caller] = Put(@, "B1", NewBusinessSession(StrId("B1"), now))]
                /\ conversation_history' =
                      IF "B1" \in DOMAIN conversation_history[Caller]
                      THEN conversation_history
                      ELSE [conversation_history EXCEPT
                               ![Caller] = Assign(@, "B1", <<>>)]
                /\ threads' =
                      [frames |-> [u \in Threads |->
                                      IF u = t THEN [Frame(u) EXCEPT !.pc = "created"]
                                      ELSE IF orphaned /\ u \in holders
                                      THEN [Frame(u) EXCEPT !.ref = Len(threads.orphans) + 1]
                                      ELSE Frame(u)],
                       orphans |-> IF orphaned
                                   THEN Append(threads.orphans, SessionAt(Caller, "B1"))
                                   ELSE threads.orphans]
                /\ last' = NotCalled("create_session")
                /\ UNCHANGED now

\* lines 98-107: the session under the key is touched and looked up again to
\* be returned
touch_return(t) ==
    /\ \/ Frame(t).pc = "created"
       \/ Frame(t).pc = "checked" /\ ~Frame(t).absent
    /\ IF ~InStore(Caller, "B1") THEN Raise(t, KeyError)
       ELSE \E s \in {[SessionAt(Caller, "B1") EXCEPT !.last_activity = now]} :
               /\ user_sessions' = [user_sessions EXCEPT ![Caller] = Put(@, "B1", s)]
               /\ threads' = [threads EXCEPT !.frames[t] =
                                 [@ EXCEPT !.pc = "acquired", !.ref = 0, !.held = s]]
               /\ last' = NotCalled("touch_return")
               /\ UNCHANGED <<conversation_history, now>>

NextCreate ==
    \/ Tick(session_timeout_minutes + TickMinutes)
    \/ \E t \in Threads : sweep_judge(t, "update_session_state")
    \/ \E t \in Threads : sweep_pop(t)
    \/ \E t \in Threads : check_key(t)
    \/ \E t \in Threads : create_session(t)
    \/ \E t \in Threads : touch_return(t)
    \/ \E t \in Threads : set_state(t)

SpecCreate == Init /\ [][NextCreate]_vars

----------------------------------------------------------------------------
(* The conversation state: one phone, every state as the new state *)

NextState ==
    \/ Tick(TickMinutes)
    \/ \E b \in OneId : get_session(Caller, b)
    \/ \E b \in OneId, new_state \in ConversationState :
          update_session_state(Caller, new_state, b)

SpecState == Init /\ [][NextState]_vars

----------------------------------------------------------------------------
(* The message handler and the HTTP endpoints.  A handler owns one store    *)
(* (handler.py line 19); the calls it makes are the store's methods applied *)
(* to that store, one after the other, at the clock value of the request.   *)

\* the public methods of UserContextService, service.py lines 154-491
Operations ==
    {"get_active_business_id", "set_active_business", "get_session",
     "update_session_state", "update_session_data", "get_conversation_history",
     "add_message_to_history", "add_to_cart", "remove_from_cart", "clear_cart",
     "get_cart", "calculate_cart_total", "get_session_data",
     "get_all_user_businesses"}

\* the two maps of one UserContextService
StoreOf(us, ch) == [us |-> us, ch |-> ch]

\* UserContextService(), lines 23-34 of service.py
EmptyStore == StoreOf([p \in {} |-> <<>>], [p \in {} |-> EmptyHistories])

\* e, computed once, handed to F: one statement of a method after another
Then(e, F(_)) == CHOOSE y \in {F(x) : x \in {e}} : TRUE

\* the store that _get_or_create_session left
After(r) == StoreOf(r.us, r.ch)

\* get_session and set_active_business on a store: _get_or_create_session
get_session_in(st, p, business_id, t) ==
    get_or_create_session(st.us, st.ch, p, business_id, t)

\* the first lines of the other keyed calls on a store (get_cart,
\* get_session_data, get_conversation_history, calculate_cart_total)
lookup_in(st, p, business_id, t) ==
    get_or_create_session(st.us, st.ch, p, ActiveOr(st.us, p, business_id), t)

\* update_session_state on a store
update_session_state_in(st, p, new_state, business_id, t) ==
    Then(lookup_in(st, p, business_id, t), LAMBDA r :
         StoreOf(Store(r, p, [Held(r, p) EXCEPT !.state = new_state]), r.ch))

\* add_message_to_history on a store
add_message_to_history_in(st, p, role, content, business_id, t) ==
    Then(lookup_in(st, p, business_id, t), LAMBDA r :
         LET k == HistoryKey(ActiveOr(st.us, p, business_id))
             ch1 == IF p \notin DOMAIN r.ch
                    THEN Assign(r.ch, p, EmptyHistories) ELSE r.ch
             h == IF k \notin DOMAIN ch1[p] THEN <<>> ELSE ch1[p][k]
             msg == [role |-> role, content |-> content, timestamp |-> t]
         IN  StoreOf(r.us, [ch1 EXCEPT ![p] = Assign(@, k, AppendMessage(h, msg))]))

\* the messages a customer sends: small talk, a digit, the commands the
\* claims are about, and two sentences that carry a checkout and a shopping
\* intent without being commands
Texts == {"hi", "1", "switch to business", "reset", "checkout", "pay now", "buy it"}

\* lines 573-576 of handler.py: a word of the list occurs in the text
shopping_intent(text) == text = "buy it"
checkout_intent(text) == text = "pay now"

\* the businesses table that _handle_business_selection reads, in row order
BusinessTable == <<"B1", "B2">>

\* line 268: index_to_id, the reply digit of every row
index_to_id == [i \in {"1", "2"} |-> IF i = "1" THEN BusinessTable[1] ELSE BusinessTable[2]]

\* what the supabase lookups of _identify_business can answer
Lookups == {NoKey} \cup Businesses

\* the replies, by what they say
ChattingWith(b) == "You're now chatting with " \o b
BusinessList == "I couldn't find that business. Please select one"
SwitchList == "Please select one of the following businesses"
ResetDone == "I've reset our conversation"
CartIsEmpty == "Your cart is empty"
CheckoutDetails == "To complete your purchase, please provide your details"
AiReply == "ai response"

\* a response with the return path that produced it
Response(st, message, path) == [st |-> st, message |-> message, path |-> path]

\* _identify_business, lines 107-166: the store after it and the id returned
identify_business(st, p, customer_business, to_business, t) ==
    Then(get_active_business_id(st.us, p), LAMBDA active :
         IF active # NoKey THEN [st |-> st, business_id |-> StrId(active)]
         ELSE IF customer_business # NoKey
         THEN Then(get_session_in(st, p, StrId(customer_business), t), LAMBDA r :
                   [st |-> After(r), business_id |-> StrId(customer_business)])
         ELSE IF to_business # NoKey
         THEN Then(get_session_in(st, p, StrId(to_business), t), LAMBDA r :
                   [st |-> update_session_state_in(After(r), p, GREETING,
                                                   StrId(to_business), t),
                    business_id |-> StrId(to_business)])
         ELSE [st |-> st, business_id |-> NoneId])

\* _handle_business_selection, lines 256-299, with the table above
handle_business_selection(st, p, text, t) ==
    Then(get_session_in(st, p, NoneId, t), LAMBDA r1 :            \* line 269
    Then(get_session_in(After(r1), p, NoneId, t), LAMBDA r2 :     \* line 270
    \* line 271: session["business_selection_map"] = index_to_id
    Then(StoreOf(Store(r2, p, Assign(Held(r2, p), "business_selection_map",
                                     index_to_id)),
                 r2.ch), LAMBDA s2 :
         IF text \in DOMAIN index_to_id
         THEN Then(get_session_in(s2, p, StrId(index_to_id[text]), t), LAMBDA r3 :
                   Response(After(r3), ChattingWith(index_to_id[text]),
                            "business selection"))
         ELSE Response(s2, BusinessList, "business selection"))))

\* _process_commands, lines 301-498: of the texts above only the switch, the
\* reset and the checkout command match; NoValue is "no command matched"
process_commands(st, p, text, business_id, t) ==
    IF text = "switch to business"
    THEN Response(update_session_state_in(st, p, BUSINESS_SELECTION, NoneId, t),
                  SwitchList, "command")
    ELSE IF text = "reset"
    THEN Response(update_session_state_in(st, p, GREETING, business_id, t),
                  ResetDone, "command")
    ELSE IF text = "checkout"
    THEN Then(lookup_in(st, p, business_id, t), LAMBDA r :          \* line 444
              IF CartOf(Held(r, p)) = <<>>
              THEN Response(After(r), CartIsEmpty, "command")
              ELSE Response(update_session_state_in(After(r), p, CHECKOUT,
                                                    business_id, t),
                            CheckoutDetails, "command"))
    ELSE Response(st, NoValue, "command")

\* _prepare_conversation_context, lines 500-554: its store calls
prepare_conversation_context(st, p, business_id, t) ==
    Then(lookup_in(st, p, business_id, t), LAMBDA r1 :               \* get_cart
    Then(IF CartOf(Held(r1, p)) # <<>>                               \* the total
         THEN lookup_in(After(r1), p, business_id, t) ELSE r1, LAMBDA r2 :
    Then(lookup_in(After(r2), p, business_id, t), LAMBDA r3 :        \* session data
         After(r3))))

\* _update_conversation_state, lines 556-582
update_conversation_state(st, p, text, business_id, t) ==
    Then(get_session_in(st, p, business_id, t), LAMBDA r :
         IF Held(r, p).state = GREETING /\ shopping_intent(text)
         THEN update_session_state_in(After(r), p, BROWSING, business_id, t)
         ELSE IF checkout_intent(text)
         THEN update_session_state_in(After(r), p, CHECKOUT, business_id, t)
         ELSE After(r))

\* the reply path of _generate_response, lines 218-250
ai_reply(st, p, text, business_id, t) ==
    Then(prepare_conversation_context(st, p, business_id, t), LAMBDA s1 :
    Then(lookup_in(s1, p, business_id, t), LAMBDA r2 :               \* line 229
    Then(update_conversation_state(After(r2), p, text, business_id, t), LAMBDA s3 :
    Then(add_message_to_history_in(s3, p, "assistant", AiReply, business_id, t),
         LAMBDA s4 :
    Then(get_session_in(s4, p, business_id, t), LAMBDA r5 :          \* line 597
         Response(After(r5), AiReply, "ai reply"))))))

\* _generate_response, lines 187-254
generate_response(st, p, text, business_id, t) ==
    Then(get_session_in(st, p, business_id, t), LAMBDA r1 :          \* line 189
    Then(lookup_in(After(r1), p, business_id, t), LAMBDA r2 :        \* line 190
    Then(add_message_to_history_in(After(r2), p, "user", text, business_id, t),
         LAMBDA s3 :
         IF ~Truthy(business_id) /\ Held(r1, p).state = BUSINESS_SELECTION
         THEN handle_business_selection(s3, p, text, t)
         ELSE Then(process_commands(s3, p, text, business_id, t), LAMBDA c :
                   IF c.message # NoValue
                   THEN Response(add_message_to_history_in(c.st, p, "assistant",
                                                           c.message, business_id, t),
                                 c.message, "command")
                   ELSE ai_reply(s3, p, text, business_id, t)))))

\* histories stay short enough to enumerate
Room(st, p) ==
    p \in DOMAIN st.ch => \A k \in DOMAIN st.ch[p] : Len(st.ch[p][k]) <= MaxMessages

\* process_message, lines 24-59, run by the handler whose store is st; the
\* store is written back when the handler outlives the request
process_message(endpoint, st, keep, p, text, customer_business, to_business) ==
    /\ Room(st, p)
    /\ \E i \in {identify_business(st, p, customer_business, to_business, now)} :
       \E g \in {generate_response(i.st, p, text, i.business_id, now)} :
           /\ user_sessions' = IF keep THEN g.st.us ELSE user_sessions
           /\ conversation_history' = IF keep THEN g.st.ch ELSE conversation_history
           /\ last' = Called(endpoint, p, i.business_id, HistoryKey(i.business_id),
                             text, [message |-> g.message, path |-> g.path],
                             {}, g.st)
    /\ UNCHANGED <<now, threads>>

\* POST /, main.py lines 74-95: the handler made once at line 68
root_webhook(p, text, customer_business, to_business) ==
    process_message("POST /", StoreOf(user_sessions, conversation_history), TRUE,
                    p, text, customer_business, to_business)

\* POST /whatsapp/webhook, whatsapp/router.py lines 20-50: Depends makes a
\* WhatsAppHandler, and with it a store, for the request
whatsapp_webhook(p, text, customer_business, to_business) ==
    process_message("POST /whatsapp/webhook", EmptyStore, FALSE,
                    p, text, customer_business, to_business)

\* GET /api/sessions/{phone}, api/router.py lines 135-153: Depends makes a
\* UserContextService for the request
get_user_session(p) ==
    \E r \in {get_session_in(EmptyStore, p, NoneId, now)} :
        /\ last' = Called("GET /api/sessions", p, NoneId, r.key, NoValue,
                          Held(r, p), {}, StoreOf(r.us, r.ch))
        /\ UNCHANGED <<user_sessions, conversation_history, now, threads>>

\* history[-limit:]
LastMessages(h, limit) ==
    IF Len(h) <= limit THEN h ELSE SubSeq(h, Len(h) - limit + 1, Len(h))

\* GET /api/sessions/{phone}/history, api/router.py lines 155-181
get_user_history(p, limit) ==
    \E r \in {lookup_in(EmptyStore, p, NoneId, now)} :
    \E h \in {IF p \in DOMAIN r.ch /\ TEMP \in DOMAIN r.ch[p]
              THEN r.ch[p][TEMP] ELSE <<>>} :
        /\ last' = Called("GET /api/sessions/history", p, NoneId, r.key, limit,
                          [history |-> LastMessages(h, limit),
                           count |-> Len(LastMessages(h, limit))],
                          {}, StoreOf(r.us, r.ch))
        /\ UNCHANGED <<user_sessions, conversation_history, now, threads>>

Limits == {1, 20}

\* the messages sent while the endpoints are compared
EndpointTexts == {"hi", "1"}

NextEndpoints ==
    \/ Tick(TickMinutes)
    \/ \E text \in EndpointTexts, customer_business \in Lookups, to_business \in Lookups :
          root_webhook(Caller, text, customer_business, to_business)
    \/ \E text \in EndpointTexts, customer_business \in Lookups, to_business \in Lookups :
          whatsapp_webhook(Caller, text, customer_business, to_business)
    \/ get_user_session(Caller)
    \/ \E limit \in Limits : get_user_history(Caller, limit)

SpecEndpoints == Init /\ [][NextEndpoints]_vars

----------------------------------------------------------------------------
(* A conversation: the messages of one phone, handled one after the other   *)
(* by the handler of the root webhook                                       *)

NextMessages ==
    \/ Tick(TickMinutes)
    \/ \E text \in Texts, customer_business \in Lookups, to_business \in Lookups :
          root_webhook(Caller, text, customer_business, to_business)

SpecMessages == Init /\ [][NextMessages]_vars

----------------------------------------------------------------------------
(* Choosing the active business: one phone that opens sessions, chooses a   *)
(* business and asks which one is active                                    *)

NextActive ==
    \/ Tick(TickMinutes)
    \/ \E b \in AnyId : get_session(Caller, b)
    \/ \E b \in AnyId : set_active_business(Caller, b)
    \/ GetActiveBusiness(Caller)

SpecActive == Init /\ [][NextActive]_vars

----------------------------------------------------------------------------
(* Tenants: two phones and two businesses, every call addressed to a key    *)

\* the (phone, business) pairs that are used: p1 with both businesses, p2
\* with the first
Tenants == {<<"p1", "B1">>, <<"p1", "B2">>, <<"p2", "B1">>}

\* the session a call for the pair is handed
HandedTo(pb) == Held(Handed(pb[1], pb[2]), pb[1])

\* a customer of a business browses, selects a product, puts it in the cart
\* and writes about it, in that order
NextTenants ==
    \/ Tick(session_timeout_minutes)
    \/ \E p \in Phones : get_session(p, NoneId)
    \/ \E pb \in Tenants : update_session_state(pb[1], BROWSING, StrId(pb[2]))
    \/ \E pb \in Tenants :
          /\ HandedTo(pb).state = BROWSING
          /\ update_session_data(pb[1], "selected_product", "P1", StrId(pb[2]))
    \/ \E pb \in Tenants :
          /\ HandedTo(pb).data.selected_product = "P1"
          /\ HandedCart(pb[1], pb[2]) = <<>>
          /\ add_to_cart(pb[1], ProductA, 1, StrId(pb[2]))
    \/ \E pb \in Tenants :
          /\ HandedCart(pb[1], pb[2]) # <<>>
          /\ HandedHistory(pb[1], pb[2]) = <<>>
          /\ add_message_to_history(pb[1], "user", "hi", StrId(pb[2]))

SpecTenants == Init /\ [][NextTenants]_vars

----------------------------------------------------------------------------
(* Session data: one phone that fills a cart, writes messages and sets data *)
(* fields                                                                   *)

\* data_key and value of update_session_data: a field the session starts
\* with, a field it does not have, and the field the cart is kept in
DataUpdates == {<<"selected_product", "P1">>, <<"note", "P1">>, <<"cart", <<>>>>}

NextData ==
    \/ Tick(TickMinutes)
    \/ \E b \in OneId : get_session(Caller, b)
    \/ \E b \in OneId : update_session_state(Caller, BROWSING, b)
    \/ \E b \in OneId, u \in DataUpdates : update_session_data(Caller, u[1], u[2], b)
    \/ \E b \in OneId :
          /\ HandedCart(Caller, KeyFor(Caller, b)) = <<>>
          /\ add_to_cart(Caller, ProductA, 1, b)
    \/ \E b \in OneId :
          /\ Len(HandedHistory(Caller, KeyFor(Caller, b))) < MaxMessages
          /\ add_message_to_history(Caller, "user", "hi", b)

SpecData == Init /\ [][NextData]_vars

----------------------------------------------------------------------------
(* Products of a business: one phone that adds products that name their     *)
(* business and products that do not                                        *)

\* a product whose record carries the business that sells it
ProductOfB2 == [id |-> "P3", price |-> 30, business_id |-> StrId("B2")]

\* no item of a cart of p has reached the bound
CartsBelowBound(p) ==
    p \in DOMAIN user_sessions
    => \A i \in 1..Len(user_sessions[p]) :
          \A j \in 1..Len(CartOf(user_sessions[p][i])) :
             CartOf(user_sessions[p][i])[j].quantity < MaxQuantity

NextProduct ==
    \/ Tick(TickMinutes)
    \/ \E b \in OneId : get_session(Caller, b)
    \/ \E b \in OneId, product \in {ProductA, ProductOfB2} :
          /\ CartsBelowBound(Caller)
          /\ add_to_cart(Caller, product, 1, b)
    \/ \E b \in OneId : get_cart(Caller, b)

SpecProduct == Init /\ [][NextProduct]_vars

----------------------------------------------------------------------------
(* Forms of a business id: one phone whose calls name a business by its     *)
(* number or by the text of its number                                      *)

\* the ids 4 and 0, each as an int and as a str
IdForms == {IntId("4"), StrId("4"), IntId("0"), StrId("0")}

\* the value of the other type with the same str()
OtherForm(b) == IF b.kind = "int" THEN StrId(b.text) ELSE IntId(b.text)

NextIds ==
    \/ Tick(TickMinutes)
    \/ \E b \in IdForms : get_session(Caller, b)
    \/ \E b \in IdForms :
          /\ Caller \in DOMAIN conversation_history
             => \A k \in DOMAIN conversation_history[Caller] :
                   Len(conversation_history[Caller][k]) < MaxMessages
          /\ add_message_to_history(Caller, "user", "hi", b)
    \/ \E b \in IdForms : get_conversation_history(Caller, b)

SpecIds == Init /\ [][NextIds]_vars

----------------------------------------------------------------------------
(* Properties *)

KeyedCalls ==
    {"get_session", "set_active_business", "update_session_state",
     "update_session_data", "get_session_data", "get_conversation_history",
     "add_message_to_history", "add_to_cart", "remove_from_cart", "clear_cart",
     "get_cart", "calculate_cart_total"}

\* a session as line 58 or line 80 creates it under key k
FreshSession(k, t) ==
    IF k = TEMP THEN NewTempSession(t) ELSE NewBusinessSession(StrId(k), t)

\* C1: a call that resolves a key whose stored session has been idle for more
\* than the timeout leaves under that key a session created at this call: the
\* initial state, an empty cart, an empty history and the initial data, changed
\* only by what the call itself sets; get_session returns that new session.
C1_ExpiredSessionIsReplaced ==
    [][(/\ last'.op \in KeyedCalls
        /\ InStore(last'.phone, last'.key)
        /\ now - SessionAt(last'.phone, last'.key).last_activity
              > session_timeout_minutes)
       => LET p == last'.phone
              k == last'.key
              op == last'.op
              s == SessionOf(user_sessions', p, k)
              fresh == FreshSession(k, now)
          IN  /\ Has(user_sessions', p, k)
              /\ s.last_activity = now
              /\ s.state = IF op = "update_session_state" THEN last'.arg
                           ELSE fresh.state
              /\ CartOf(s) = IF op = "add_to_cart"
                             THEN <<[product |-> last'.arg[1],
                                     quantity |-> last'.arg[2]]>>
                             ELSE <<>>
              /\ \A f \in DOMAIN s.data \ {"cart"} :
                    \/ op = "update_session_data" /\ f = last'.arg[1]
                    \/ f \in DOMAIN fresh.data /\ s.data[f] = fresh.data[f]
              /\ HistoryOf(conversation_history', p, k) = IF op = "add_message_to_history"
                                    THEN <<last'.arg>> ELSE <<>>
              /\ op = "get_session" => last'.ret = fresh
      ]_vars

\* get_session for B1 swept a B1 session that had a state, a cart, a history
\* and a selected product, and returned a new one
C1_Witness ==
    /\ last.op = "get_session"
    /\ last.key = "B1"
    /\ \E x \in last.swept :
          /\ x.phone = last.phone
          /\ x.session.key = "B1"
          /\ x.session.state = BROWSING
          /\ CartOf(x.session) # <<>>
          /\ x.session.data.selected_product = "P1"
          /\ x.history # <<>>
    /\ last.ret.state = GREETING
    /\ CartOf(last.ret) = <<>>
    /\ HistoryAt(last.phone, "B1") = <<>>

----------------------------------------------------------------------------

\* the positions of a phone's business sessions
BusinessAt(p) ==
    IF p \in DOMAIN user_sessions
    THEN {i \in 1..Len(user_sessions[p]) : user_sessions[p][i].key # TEMP}
    ELSE {}

\* k is a business key of p whose session no other business session of p
\* is more recent than
Latest(p, k) ==
    \E i \in BusinessAt(p) :
        /\ user_sessions[p][i].key = k
        /\ \A j \in BusinessAt(p) :
              user_sessions[p][j].last_activity <= user_sessions[p][i].last_activity

\* C2: in every store state and for every phone, get_active_business_id is
\* None when the phone has no session or only the placeholder, and otherwise
\* a business key of that phone with the latest last_activity; a call of it
\* returns just that.
C2_ActiveIsMostRecent ==
    /\ \A p \in Phones :
          LET a == get_active_business_id(user_sessions, p)
          IN  IF BusinessAt(p) = {} THEN a = NoKey ELSE Latest(p, a)
    /\ last.op = "get_active_business_id" =>
          IF BusinessAt(last.phone) = {} THEN last.ret = NoKey
          ELSE Latest(last.phone, last.ret)

\* B1 was inserted first and touched earlier than B2; the lookup answers B2
C2_Witness ==
    /\ last.op = "get_active_business_id"
    /\ last.ret = "B2"
    /\ Len(user_sessions[last.phone]) = 2
    /\ user_sessions[last.phone][1].key = "B1"
    /\ user_sessions[last.phone][2].key = "B2"
    /\ user_sessions[last.phone][1].last_activity
          < user_sessions[last.phone][2].last_activity

\* C3: no call returns, or reports as active, a session idle for more than
\* the timeout: the business that get_active_business_id answers has a session
\* touched within the timeout, and the session get_session returns is touched now.
C3_NeverReportsExpired ==
    /\ (last.op = "get_active_business_id" /\ last.ret # NoKey) =>
          now - SessionAt(last.phone, last.ret).last_activity
             <= session_timeout_minutes
    /\ last.op = "get_session" => last.ret.last_activity = now

----------------------------------------------------------------------------

Min(a, b) == IF a < b THEN a ELSE b

\* C4: the caller numbers the messages it appends to a business session from 1,
\* starting again when the session is created anew.  After the n-th append the
\* stored history, which get_conversation_history returns, is the messages
\* n - min(n, 20) + 1 .. n, in that order, each with the role it was given;
\* the message just appended is its last entry.
C4_HistoryIsLastTwenty ==
    /\ (last.op = "add_message_to_history" /\ last.key # TEMP) =>
          LET h == HistoryAt(last.phone, last.key)
          IN  h # <<>> /\ h[Len(h)] = last.arg
    /\ \A k \in Businesses :
          LET h == HistoryAt(Caller, k)
              n == h[Len(h)].content
          IN  h # <<>> =>
                /\ Len(h) = Min(n, max_history_length)
                /\ \A i \in 1..Len(h) :
                      /\ h[i].content = n - Len(h) + i
                      /\ h[i].role = RoleOf(n - Len(h) + i)
    /\ (last.op = "get_conversation_history" /\ last.key # TEMP) =>
          last.ret = HistoryAt(last.phone, last.key)

\* the history read back after 25 appends: 20 entries, the 6th append first
C4_Witness ==
    /\ last.op = "get_conversation_history"
    /\ last.key = "B1"
    /\ Len(last.ret) = 20
    /\ last.ret[1].content = 6
    /\ last.ret[20].content = 25

\* C5: every history list of every key of every phone, the placeholder's
\* included, has at most max_history_length entries.
C5_HistoryBounded ==
    \A p \in DOMAIN conversation_history :
        \A k \in DOMAIN conversation_history[p] :
            Len(conversation_history[p][k]) <= max_history_length

\* an append made to a full history: the list still has 20 entries
C5_Witness ==
    /\ last.op = "add_message_to_history"
    /\ last.arg.content > max_history_length
    /\ Len(HistoryAt(last.phone, last.key)) = max_history_length
    /\ HistoryAt(last.phone, last.key)[max_history_length] = last.arg

\* C6: for every key, the placeholder's included: when a message is appended
\* to a key whose session is in the store and has not timed out, the message
\* appended before it is still in the history, right before the new one; and
\* get_conversation_history on such a key returns the history as it was.
C6_AppendsKeepOrder ==
    [][(/\ last'.op \in {"add_message_to_history", "get_conversation_history"}
        /\ InStore(last'.phone, last'.key)
        /\ now - SessionAt(last'.phone, last'.key).last_activity
              <= session_timeout_minutes
        /\ HistoryAt(last'.phone, last'.key) # <<>>)
       => LET h == HistoryAt(last'.phone, last'.key)
              h2 == HistoryOf(conversation_history', last'.phone, last'.key)
          IN  IF last'.op = "get_conversation_history"
              THEN last'.ret = h /\ h2 = h
              ELSE /\ Len(h2) >= 2
                   /\ h2[Len(h2)] = last'.arg
                   /\ h2[Len(h2) - 1] = h[Len(h)]
      ]_vars

----------------------------------------------------------------------------

\* the positions of the items of a product id in a cart
ItemsOf(cart, id) == {i \in 1..Len(cart) : cart[i].product.id = id}

\* the cart of the session the last call resolved, as the store holds it now
CartNow == CartOf(SessionAt(last.phone, last.key))

\* C7: add_to_cart on a session whose cart already holds the product id
\* leaves one item of that id, at its place, with the product stored by the
\* first add and the sum of the quantities; the other items are untouched; the
\* total of a cart of that one item is the first add's price times the sum.
C7_SecondAddMerges ==
    (last.op = "add_to_cart" /\ ItemsOf(CartOf(last.held), last.arg[1].id) # {})
    => LET cart0 == CartOf(last.held)
           id == last.arg[1].id
           q == last.arg[2]
       IN  /\ last.ret = CartNow
           /\ Len(CartNow) = Len(cart0)
           /\ Cardinality(ItemsOf(CartNow, id)) = 1
           /\ \A i \in 1..Len(cart0) :
                 IF cart0[i].product.id = id
                 THEN /\ CartNow[i].product = cart0[i].product
                      /\ CartNow[i].quantity = cart0[i].quantity + q
                 ELSE CartNow[i] = cart0[i]
           /\ Len(cart0) = 1 =>
                 /\ CartTotal(CartNow).total
                       = cart0[1].product.price * (cart0[1].quantity + q)
                 /\ CartTotal(CartNow).item_count = cart0[1].quantity + q

\* P1 was added twice at price 50, then once more at price 70: one item, the
\* first product, quantity 3, total 150
C7_Witness ==
    /\ last.op = "add_to_cart"
    /\ CartOf(last.held) = <<[product |-> ProductA, quantity |-> 2]>>
    /\ last.arg = <<ProductA2, 1>>
    /\ CartNow = <<[product |-> ProductA, quantity |-> 3]>>
    /\ CartTotal(CartNow) = [total |-> 150, item_count |-> 3, currency |-> CURRENCY]

\* C8: add_to_cart with a quantity <= 0 leaves the cart of the session as it
\* was handed to the call.
C8_NonPositiveRejected ==
    (last.op = "add_to_cart" /\ last.arg[2] <= 0) => CartNow = CartOf(last.held)

\* C9: in every cart of every session each product id occurs once and every
\* quantity is at least 1.
C9_CartInvariant ==
    \A p \in DOMAIN user_sessions :
        \A n \in 1..Len(user_sessions[p]) :
            LET cart == CartOf(user_sessions[p][n])
            IN  \A i \in 1..Len(cart) :
                    /\ cart[i].quantity >= 1
                    /\ ItemsOf(cart, cart[i].product.id) = {i}

\* C10: remove_from_cart with an id the cart does not hold leaves the cart as
\* it was; with an id the cart holds it leaves the cart without that one item,
\* the others in their order with their quantities; it returns the cart.
C10_RemoveIsExact ==
    last.op = "remove_from_cart"
    => LET cart0 == CartOf(last.held)
           at == ItemsOf(cart0, last.arg)
       IN  /\ last.ret = CartNow
           /\ at = {} => CartNow = cart0
           /\ at # {} =>
                 \E i \in at :
                    CartNow = SubSeq(cart0, 1, i - 1)
                                 \o SubSeq(cart0, i + 1, Len(cart0))

\* P1 removed from a cart of P2 and P1 and P2's item stays as it was
C10_Witness ==
    /\ last.op = "remove_from_cart"
    /\ last.arg = "P1"
    /\ Len(CartOf(last.held)) = 2
    /\ CartOf(last.held)[1].product.id = "P2"
    /\ CartOf(last.held)[2].product.id = "P1"
    /\ CartNow = <<CartOf(last.held)[1]>>

----------------------------------------------------------------------------

\* the sum of price times quantity, and of the quantities, of the first n items
RECURSIVE Amount(_, _)
Amount(cart, n) ==
    IF n = 0 THEN 0
    ELSE Amount(cart, n - 1) + cart[n].product.price * cart[n].quantity

RECURSIVE Pieces(_, _)
Pieces(cart, n) ==
    IF n = 0 THEN 0 ELSE Pieces(cart, n - 1) + cart[n].quantity

\* C11: calculate_cart_total returns, for the cart of the session it holds,
\* total = the sum over the items of stored price times quantity, item_count =
\* the sum of the quantities and the currency ZMW; for an empty cart both sums
\* are 0; the call leaves the cart as it was.
C11_TotalIsSum ==
    last.op = "calculate_cart_total"
    => LET cart == CartOf(last.held)
       IN  /\ last.ret.total = Amount(cart, Len(cart))
           /\ last.ret.item_count = Pieces(cart, Len(cart))
           /\ last.ret.currency = CURRENCY
           /\ cart = <<>> => last.ret.total = 0 /\ last.ret.item_count = 0
           /\ CartNow = cart

\* the total of P1 x 2 at 50 and P2 x 1 at 20, P1 having been added again at 70
C11_Witness ==
    /\ last.op = "calculate_cart_total"
    /\ CartOf(last.held) = <<[product |-> ProductA, quantity |-> 2],
                             [product |-> ProductB, quantity |-> 1]>>
    /\ last.ret = [total |-> 120, item_count |-> 3, currency |-> CURRENCY]

----------------------------------------------------------------------------

\* C12: when every thread has made one add_to_cart of product P1, quantity 1,
\* all on the cart of a session created by the first of them and none timed
\* out, the cart holds one item of P1 whose quantity is the number of threads.
C12_ParallelAddsAllCounted ==
    (/\ now = 0
     /\ \A t \in Threads : Frame(t).pc = "idle" /\ Frame(t).done = <<"add_to_cart">>)
    => /\ InStore(Caller, "B1")
       /\ CartOf(SessionAt(Caller, "B1"))
             = <<[product |-> ProductA, quantity |-> Cardinality(Threads)]>>

----------------------------------------------------------------------------

\* the session under (p, k) is not the one the next call will be handed: the
\* key is absent, or timed out, or the placeholder's
MadeAnew(p, k) ==
    IF ~InStore(p, k) THEN TRUE
    ELSE k = TEMP \/ Expired(SessionAt(p, k), now)

\* C13: a call that creates the session it resolves is handed a placeholder
\* in BUSINESS_SELECTION or a business session in GREETING with an empty cart,
\* touched now, and the key's history is empty but for a message the call
\* itself appends; get_session without a business id for a phone that has no
\* entry returns the placeholder.
C13_NewSessionsStartInitial ==
    [][last'.op \in KeyedCalls
       => LET p == last'.phone
              k == last'.key
          IN  /\ MadeAnew(p, k) =>
                    /\ last'.held.key = k
                    /\ last'.held.state = IF k = TEMP THEN BUSINESS_SELECTION
                                          ELSE GREETING
                    /\ last'.held.last_activity = now
                    /\ CartOf(last'.held) = <<>>
                    /\ HistoryOf(conversation_history', p, k)
                          = IF last'.op = "add_message_to_history"
                            THEN <<last'.arg>> ELSE <<>>
              /\ (/\ last'.op = "get_session"
                  /\ last'.bid = NoneId
                  /\ p \notin DOMAIN user_sessions)
                 => /\ k = TEMP
                    /\ last'.ret.state = BUSINESS_SELECTION
                    /\ Has(user_sessions', p, TEMP)
      ]_vars

\* the first call of a phone, without a business id, returned the placeholder
C13_Witness ==
    /\ last.op = "get_session"
    /\ last.bid = NoneId
    /\ last.key = TEMP
    /\ last.ret.state = BUSINESS_SELECTION
    /\ now = 0
    /\ KeysOf(user_sessions[last.phone]) = {TEMP}
    /\ HistoryAt(last.phone, TEMP) = <<>>

----------------------------------------------------------------------------

\* C14: a keyed call with a business id b resolves the key str(b); after it
\* the session of that key is in the map, touched now; when the key held a
\* session that had not timed out, get_session returns that session, changed
\* in last_activity only; the phone has no placeholder and no placeholder
\* history left; when the phone held only the placeholder, the businesses
\* listed for it are just this one.  get_all_user_businesses returns that list.
C14_BusinessIdGivesItsSession ==
    [][/\ (last'.op \in KeyedCalls /\ Truthy(last'.bid))
          => LET p == last'.phone
                 k == Str(last'.bid)
             IN  /\ last'.key = k
                 /\ Has(user_sessions', p, k)
                 /\ SessionOf(user_sessions', p, k).last_activity = now
                 /\ (/\ last'.op = "get_session"
                     /\ InStore(p, k)
                     /\ ~Expired(SessionAt(p, k), now))
                    => /\ last'.ret = [SessionAt(p, k) EXCEPT !.last_activity = now]
                       /\ SessionOf(user_sessions', p, k) = last'.ret
                       /\ HistoryOf(conversation_history', p, k) = HistoryAt(p, k)
                 /\ (last'.op = "get_session" /\ ~InStore(p, k))
                    => last'.ret = SessionOf(user_sessions', p, k)
                 /\ ~Has(user_sessions', p, TEMP)
                 /\ TEMP \notin DOMAIN conversation_history'[p]
                 /\ (p \in DOMAIN user_sessions /\ KeysOf(user_sessions[p]) = {TEMP})
                    => business_keys(user_sessions', p) = <<k>>
       /\ last'.op = "get_all_user_businesses"
          => /\ last'.ret = business_keys(user_sessions, last'.phone)
             /\ \A k \in Keys :
                   (k \in {last'.ret[i] : i \in 1..Len(last'.ret)})
                      <=> (k # TEMP /\ InStore(last'.phone, k))
      ]_vars

\* the businesses listed right after a phone's only session became B1's
C14_Witness ==
    /\ last.op = "get_all_user_businesses"
    /\ last.ret = <<"B1">>
    /\ KeysOf(user_sessions[last.phone]) = {"B1"}
    /\ DOMAIN conversation_history[last.phone] = {"B1"}

----------------------------------------------------------------------------

\* the business sessions of p that have not timed out
LiveBusinesses(p) ==
    IF p \in DOMAIN user_sessions
    THEN {k \in KeysOf(user_sessions[p]) \ {TEMP} : ~Expired(SessionAt(p, k), now)}
    ELSE {}

\* C15: get_session without a business id, for a phone with a business session
\* that has not timed out, returns a business session that no other business
\* session of the phone had a later last_activity than, touched now and else
\* unchanged, and the phone has no placeholder afterwards.
C15_NoIdGivesMostRecent ==
    [][(/\ last'.op = "get_session"
        /\ ~Truthy(last'.bid)
        /\ LiveBusinesses(last'.phone) # {})
       => LET p == last'.phone
              k == last'.key
          IN  /\ k \in LiveBusinesses(p)
              /\ \A j \in LiveBusinesses(p) :
                    SessionAt(p, j).last_activity <= SessionAt(p, k).last_activity
              /\ last'.ret = [SessionAt(p, k) EXCEPT !.last_activity = now]
              /\ SessionOf(user_sessions', p, k) = last'.ret
              /\ ~Has(user_sessions', p, TEMP)
      ]_vars

\* B1 was inserted before B2, B2 was touched later: the call returned B2
C15_Witness ==
    /\ last.op = "get_session"
    /\ last.bid = NoneId
    /\ last.key = "B2"
    /\ Len(user_sessions[last.phone]) = 2
    /\ user_sessions[last.phone][1].key = "B1"
    /\ user_sessions[last.phone][1].last_activity < now
    /\ user_sessions[last.phone][2] = last.ret

----------------------------------------------------------------------------

\* C16: get_session without a business id, for a phone whose only session is
\* a placeholder that has not timed out, returns that placeholder with its
\* state and data as earlier calls left them, touched now, and leaves the
\* placeholder's history as it was.
C16_PlaceholderIsKept ==
    [][(/\ last'.op = "get_session"
        /\ ~Truthy(last'.bid)
        /\ InStore(last'.phone, TEMP)
        /\ KeysOf(user_sessions[last'.phone]) = {TEMP}
        /\ ~Expired(SessionAt(last'.phone, TEMP), now))
       => LET p == last'.phone
          IN  /\ last'.key = TEMP
              /\ last'.ret = [SessionAt(p, TEMP) EXCEPT !.last_activity = now]
              /\ SessionOf(user_sessions', p, TEMP) = last'.ret
              /\ HistoryOf(conversation_history', p, TEMP) = HistoryAt(p, TEMP)
      ]_vars

----------------------------------------------------------------------------

\* C17: a call of get_active_business_id leaves both maps as they were: no
\* phone entry and no session appears or goes, and no session's
\* last_activity, state or data and no history changes.
C17_LookupIsPure ==
    [][last'.op = "get_active_business_id"
       => /\ user_sessions' = user_sessions
          /\ conversation_history' = conversation_history
          /\ last'.ret = get_active_business_id(user_sessions, last'.phone)
      ]_vars

\* the lookup answered B1 and B1's last_activity is still in the past
C17_Witness ==
    /\ last.op = "get_active_business_id"
    /\ last.ret = "B1"
    /\ SessionAt(last.phone, "B1").last_activity < now
    /\ \E p \in Phones : p \notin DOMAIN user_sessions

----------------------------------------------------------------------------

\* idle for more than the timeout at the present clock value
TimedOut(s) == now - s.last_activity > session_timeout_minutes

\* C18: the sweep of a keyed call, whatever phone the call is for, removes
\* every session of every phone idle for more than the timeout, with its
\* history, and no other session: afterwards such a key is absent, or is the
\* key the call resolved and holds a session created now with an empty
\* history; a session idle for the timeout or less is still there, unchanged
\* unless it is the one the call touches (the accessed phone's placeholder,
\* which the call itself replaces, aside).  So a session idle for more than
\* the timeout does not outlive the next keyed call of any phone.
C18_SweepRemovesExactlyExpired ==
    [][last'.op \in KeyedCalls
       => /\ last'.swept =
                UNION {{[phone |-> q, session |-> user_sessions[q][i],
                         history |-> HistoryAt(q, user_sessions[q][i].key)]
                           : i \in {j \in 1..Len(user_sessions[q]) :
                                       TimedOut(user_sessions[q][j])}}
                       : q \in DOMAIN user_sessions}
          /\ \A q \in DOMAIN user_sessions :
                \A i \in 1..Len(user_sessions[q]) :
                    LET s == user_sessions[q][i]
                        mine == q = last'.phone /\ s.key = last'.key
                    IN  IF TimedOut(s)
                        THEN IF mine
                             THEN /\ SessionOf(user_sessions', q, s.key).last_activity = now
                                  /\ HistoryOf(conversation_history', q, s.key) = <<>>
                             ELSE /\ ~Has(user_sessions', q, s.key)
                                  /\ q \in DOMAIN conversation_history'
                                        => s.key \notin DOMAIN conversation_history'[q]
                        ELSE \/ q = last'.phone /\ s.key = TEMP
                             \/ /\ Has(user_sessions', q, s.key)
                                /\ SessionOf(user_sessions', q, s.key)
                                      = IF mine THEN [s EXCEPT !.last_activity = now] ELSE s
                                /\ s.key \in DOMAIN conversation_history'[q]
                                /\ conversation_history'[q][s.key]
                                      = conversation_history[q][s.key]
      ]_vars

\* a call for p2 removed a session of p1 idle for 45 minutes and kept one of
\* p1 idle for exactly 30
C18_Witness ==
    /\ last.op = "get_session"
    /\ last.phone = "p2"
    /\ \E x \in last.swept :
          x.phone = "p1" /\ now - x.session.last_activity = session_timeout_minutes + TickMinutes
    /\ "p1" \in DOMAIN user_sessions
    /\ \E i \in 1..Len(user_sessions["p1"]) :
          now - user_sessions["p1"][i].last_activity = session_timeout_minutes

----------------------------------------------------------------------------

\* C19: in every state between calls, every phone entry of user_sessions
\* holds at least one session, conversation_history has an entry for exactly
\* the phones user_sessions has, and a phone's histories are those of its
\* session keys; so a phone whose last session a sweep removed has no entry
\* left in either map.
C19_NoEmptyContainers ==
    /\ \A p \in DOMAIN user_sessions : user_sessions[p] # <<>>
    /\ DOMAIN conversation_history = DOMAIN user_sessions
    /\ \A p \in DOMAIN user_sessions :
          DOMAIN conversation_history[p] = KeysOf(user_sessions[p])
    /\ \A x \in last.swept :
          \/ x.phone \notin DOMAIN user_sessions
          \/ x.session.key \notin KeysOf(user_sessions[x.phone])
          \/ x.phone = last.phone /\ x.session.key = last.key

\* a call for p2 swept the last session of p1: p1 has no entry in either map
C19_Witness ==
    /\ last.op = "get_session"
    /\ last.phone = "p2"
    /\ \E x \in last.swept : x.phone = "p1"
    /\ "p1" \notin DOMAIN user_sessions
    /\ "p1" \notin DOMAIN conversation_history

----------------------------------------------------------------------------

\* C20: with calls running in parallel, a mutating call that completes at the
\* clock value at which it looked its session up has changed the session that
\* is in the map under its key: after update_session_state that session has
\* the new state, after add_to_cart it has the cart the call returns.
C20_MutationReachesTheMap ==
    (/\ last.op \in {"update_session_state", "add_to_cart"}
     /\ last.held.last_activity = now)
    => /\ InStore(last.phone, last.key)
       /\ last.op = "update_session_state"
             => SessionAt(last.phone, last.key).state = last.arg
       /\ last.op = "add_to_cart"
             => CartOf(SessionAt(last.phone, last.key)) = last.ret

----------------------------------------------------------------------------

\* C21: with calls in parallel and before any session can have timed out
\* (the clock is at 0), the session dict a thread was handed for (phone, B1)
\* is the one the map holds under that key; so the state a thread sets
\* through it is the state of the session in the map.
C21_OneEntityPerKey ==
    now = 0
    => /\ \A t \in Threads :
             Frame(t).pc = "acquired" => Frame(t).ref = 0 /\ InStore(Caller, "B1")
       /\ (last.op = "update_session_state" /\ last.arg # KeyError)
             => /\ InStore(last.phone, last.key)
                /\ SessionAt(last.phone, last.key).state = last.arg

----------------------------------------------------------------------------

\* C22: update_session_state with any of the ten states as the new state,
\* on a session in any state, leaves the session it was handed in exactly the
\* new state and otherwise as it was handed, stores it under its key and
\* returns it.
C22_SetStateOverwrites ==
    last.op = "update_session_state"
    => /\ last.arg \in ConversationState
       /\ InStore(last.phone, last.key)
       /\ SessionAt(last.phone, last.key).state = last.arg
       /\ SessionAt(last.phone, last.key) = [last.held EXCEPT !.state = last.arg]
       /\ last.ret = SessionAt(last.phone, last.key)

\* a session of B1 that was in PAYMENT, touched earlier, is reset to GREETING
C22_Witness ==
    /\ last.op = "update_session_state"
    /\ last.key = "B1"
    /\ last.swept = {}
    /\ last.held.state = PAYMENT
    /\ last.arg = GREETING
    /\ SessionAt(last.phone, "B1").state = GREETING

----------------------------------------------------------------------------

\* C23: after every keyed call, whether or not the key it resolved had a
\* session and whether or not that session had timed out, the key holds a
\* session touched now, the key has a history list, and the call has returned
\* its result (a session, a cart, a total, data or a history, never a report
\* of a missing session).
C23_AbsenceIsCreation ==
    last.op \in KeyedCalls
    => /\ InStore(last.phone, last.key)
       /\ SessionAt(last.phone, last.key).last_activity = now
       /\ last.key \in DOMAIN conversation_history[last.phone]
       /\ last.held.key = last.key
       /\ last.op \in {"get_session", "update_session_state", "update_session_data"}
             => last.ret = SessionAt(last.phone, last.key)
       /\ last.op \in {"add_to_cart", "remove_from_cart", "get_cart"}
             => last.ret = CartOf(SessionAt(last.phone, last.key))
       /\ last.op \in {"clear_cart", "get_session_data"}
             => last.ret = SessionAt(last.phone, last.key).data
       /\ last.op = "calculate_cart_total"
             => last.ret = CartTotal(CartOf(SessionAt(last.phone, last.key)))
       /\ last.op = "get_conversation_history"
             => last.ret = HistoryAt(last.phone, last.key)

\* clear_cart on a key whose session had timed out and was swept by the call
C23_Witness ==
    /\ last.op = "clear_cart"
    /\ last.key = "B1"
    /\ \E x \in last.swept : x.phone = last.phone /\ x.session.key = "B1"
    /\ InStore(last.phone, "B1")
    /\ SessionAt(last.phone, "B1").last_activity = now

----------------------------------------------------------------------------
(* C24: one store for every endpoint *)

EndpointCalls ==
    {"POST /", "POST /whatsapp/webhook", "GET /api/sessions",
     "GET /api/sessions/history"}

\* C24: whichever endpoint serves a request for a phone that has a business
\* session in the process-wide store, the store the request worked on is that
\* process-wide store: what the request created or changed is there for the
\* next request, and what earlier requests left is what it saw.
C24_OneSharedStore ==
    (/\ last.op \in EndpointCalls
     /\ get_active_business_id(user_sessions, last.phone) # NoKey)
    => last.held = StoreOf(user_sessions, conversation_history)

----------------------------------------------------------------------------
(* C25: the business just chosen is the active one *)

\* C25: right after set_active_business(phone, B) returned, the lookup of the
\* active business of the phone answers B, whatever other business sessions
\* the phone has and whenever they were last touched.
C25_ChosenIsActive ==
    (last.op = "set_active_business" /\ Truthy(last.bid))
    => get_active_business_id(user_sessions, last.phone) = Str(last.bid)

----------------------------------------------------------------------------
(* C26: the businesses of a phone *)

----------------------------------------------------------------------------
(* C27: removing sessions *)

SweptAway(p, k) ==
    \E x \in last'.swept :
        /\ x.phone = p
        /\ x.session.key = k
        /\ now - x.session.last_activity > 30

----------------------------------------------------------------------------
(* C28, C29: what handling a message leaves behind *)

\* C28: after a message was handled, the history of the session it was
\* handled under ends with the user's message followed by the reply that was
\* returned, whichever return path produced the reply.
C28_MessageAndReplyRecorded ==
    last.op = "POST /"
    => LET h == HistoryAt(last.phone, last.key)
       IN  /\ Len(h) >= 2
           /\ h[Len(h) - 1].role = "user"
           /\ h[Len(h) - 1].content = last.arg
           /\ h[Len(h)].role = "assistant"
           /\ h[Len(h)].content = last.ret.message

\* C29: when the switch command came from a phone with an active business,
\* the next message of that phone is handled by the business-selection step.
C29_SwitchLeadsToSelection ==
    [][(/\ last.op = "POST /"
        /\ last.arg = "switch to business"
        /\ last.bid # NoneId
        /\ last'.op = "POST /")
       => last'.ret.path = "business selection"]_vars

----------------------------------------------------------------------------
(* C30: calls without a business id *)

\* the calls that resolve the active business themselves when they are given
\* no business id
ResolvingCalls ==
    {"update_session_state", "update_session_data", "add_to_cart",
     "remove_from_cart", "clear_cart", "get_cart", "calculate_cart_total",
     "get_session_data", "get_conversation_history", "add_message_to_history"}

\* C30: a store call made without a business id works on the session that
\* _get_or_create_session(phone) without a business id returns in the same
\* store at the same time, also when business sessions of the phone have
\* timed out.
C30_NoIdMeansTheDefaultSession ==
    [][(last'.op \in ResolvingCalls /\ last'.bid = NoneId)
       => LET r == get_or_create_session(user_sessions, conversation_history,
                                         last'.phone, NoneId, now)
          IN  /\ last'.key = r.key
              /\ last'.held = Held(r, last'.phone)]_vars

----------------------------------------------------------------------------
(* C31: tenant isolation *)

\* C31: a call addressed to (phone, B) leaves every other session that has not
\* timed out as it was, with its state, cart, metadata and history: the
\* sessions of other phones and the sessions of the same phone under another
\* business.  Only the placeholder of that phone may go.
C31_TenantIsolation ==
    [][(last'.op \in KeyedCalls /\ Truthy(last'.bid))
       => \A q \in DOMAIN user_sessions : \A i \in 1..Len(user_sessions[q]) :
             LET s == user_sessions[q][i]
             IN  (/\ <<q, s.key>> # <<last'.phone, Str(last'.bid)>>
                  /\ <<q, s.key>> # <<last'.phone, TEMP>>
                  /\ now - s.last_activity <= 30)
                 => /\ Has(user_sessions', q, s.key)
                    /\ SessionOf(user_sessions', q, s.key) = s
                    /\ HistoryOf(conversation_history', q, s.key)
                          = HistoryOf(conversation_history, q, s.key)]_vars

\* a call addressed to one business of a phone was made while the phone had a
\* live session with a cart and a history under the other business and the
\* other phone had a live session too
C31_Witness ==
    /\ last.op \in KeyedCalls
    /\ Truthy(last.bid)
    /\ \E k \in Businesses \ {last.key} :
          /\ InStore(last.phone, k)
          /\ CartOf(SessionAt(last.phone, k)) # <<>>
          /\ HistoryAt(last.phone, k) # <<>>
          /\ SessionAt(last.phone, k).last_activity < now
    /\ \E q \in Phones \ {last.phone} : \E k \in Businesses : InStore(q, k)

----------------------------------------------------------------------------
(* C32: the placeholder and the business sessions exclude each other *)

\* C32: a phone never has the placeholder session together with a business
\* session.  After every call a phone with the placeholder has no other
\* session, and a call that returns a business session leaves the phone
\* without placeholder.
C32_PlaceholderOrBusiness ==
    [][/\ \A p \in DOMAIN user_sessions' :
             HasKey(user_sessions'[p], TEMP)
             => \A i \in 1..Len(user_sessions'[p]) : user_sessions'[p][i].key = TEMP
       /\ (last'.op \in KeyedCalls /\ last'.key \in Businesses)
             => ~Has(user_sessions', last'.phone, TEMP)]_vars

\* a call without business id was answered with the placeholder
C32_Witness ==
    /\ last.op \in KeyedCalls
    /\ last.bid = NoneId
    /\ last.key = TEMP
    /\ InStore(last.phone, TEMP)

----------------------------------------------------------------------------
(* C33: the two maps go together *)

\* C33: after every call the session map and the history map have the same
\* phones and, for each phone, the same keys.  A key that a call adds to a
\* phone starts with an empty history, but for the message the call itself
\* appends.
C33_MapsAgree ==
    [][/\ DOMAIN user_sessions' = DOMAIN conversation_history'
       /\ \A p \in DOMAIN user_sessions' :
             KeysOf(user_sessions'[p]) = DOMAIN conversation_history'[p]
       /\ \A p \in DOMAIN user_sessions' : \A k \in KeysOf(user_sessions'[p]) :
             ~Has(user_sessions, p, k)
             => \/ conversation_history'[p][k] = <<>>
                \/ /\ last'.op = "add_message_to_history"
                   /\ conversation_history'[p][k] = <<last'.arg>>]_vars

\* a call swept a session that had a history, and the key is in neither map
\* or back with an empty history
C33_Witness ==
    \E x \in last.swept :
        /\ x.history # <<>>
        /\ x.session.key \in Businesses
        /\ HistoryAt(x.phone, x.session.key) = <<>>

----------------------------------------------------------------------------
(* C34: setting a data field *)

\* C34: update_session_data changes the named field only: whatever the key,
\* the cart, the conversation state and the history of the session are after
\* the call what they were when the call was handed the session.
C34_DataUpdateKeepsTheRest ==
    [][last'.op = "update_session_data"
       => /\ CartOf(SessionOf(user_sessions', last'.phone, last'.key))
                = CartOf(last'.held)
          /\ SessionOf(user_sessions', last'.phone, last'.key).state = last'.held.state
          /\ HistoryOf(conversation_history', last'.phone, last'.key)
                = HandedHistory(last'.phone, last'.key)]_vars

----------------------------------------------------------------------------
(* C35: a product that names its business *)

\* C35: add_to_cart without a business id, for a phone that has no business
\* session that is still live, with a product that carries a business_id,
\* puts the item in the cart of the session of (phone, product.business_id),
\* which is in GREETING when the call made it, and leaves no placeholder;
\* get_cart(phone) called next returns a cart with the item.
C35_ProductBusinessIsUsed ==
    [][/\ (/\ last'.op = "add_to_cart"
           /\ last'.bid = NoneId
           /\ Truthy(last'.arg[1].business_id)
           /\ LiveBusinesses(last'.phone) = {})
          => /\ last'.key = Str(last'.arg[1].business_id)
             /\ last'.held.state = GREETING
             /\ ItemsOf(CartOf(SessionOf(user_sessions', last'.phone,
                                         Str(last'.arg[1].business_id))),
                        last'.arg[1].id) # {}
             /\ ~Has(user_sessions', last'.phone, TEMP)
       /\ (/\ last.op = "add_to_cart"
           /\ last.bid = NoneId
           /\ Truthy(last.arg[1].business_id)
           /\ last'.op = "get_cart"
           /\ last'.bid = NoneId)
          => ItemsOf(last'.ret, last.arg[1].id) # {}]_vars

----------------------------------------------------------------------------
(* C36: checkout needs a cart *)

\* C36: after a message was handled, no session of the phone is in state
\* CHECKOUT with an empty cart.
C36_NoCheckoutOnEmptyCart ==
    (last.op = "POST /" /\ last.phone \in DOMAIN user_sessions)
    => \A i \in 1..Len(user_sessions[last.phone]) :
          user_sessions[last.phone][i].state = CHECKOUT
          => CartOf(user_sessions[last.phone][i]) # <<>>

----------------------------------------------------------------------------
(* C37: the key of a business is the text of its id *)

\* C37: a call that names a business by a value reaches the session and the
\* history that the same call with the other value of the same string form
\* reaches, and a phone never has two sessions for one string form.
C37_IdFormsShareTheSession ==
    [][(/\ last'.op \in {"get_session", "get_conversation_history",
                         "add_message_to_history"}
        /\ last'.bid \in IdForms)
       => /\ last'.key
                = get_or_create_session(user_sessions, conversation_history,
                                        last'.phone,
                                        ActiveOr(user_sessions, last'.phone,
                                                 OtherForm(last'.bid)),
                                        now).key
          /\ last'.key = Str(last'.bid)
          /\ \A i, j \in 1..Len(user_sessions'[last'.phone]) :
                user_sessions'[last'.phone][i].key = user_sessions'[last'.phone][j].key
                => i = j]_vars

============================================================================
